---- MODULE Spec2Model ----
(***************************************************************************)
(* Metric/result engine of a task (src/libmime/filter.c), the pre-result   *)
(* setter (src/lua/lua_task.c), the fuzzy storage datagram handler         *)
(* (src/fuzzy_storage.c), the redis backend of the fuzzy storage           *)
(* (src/libserver/fuzzy_backend_redis.c) and the pool of redis connections *)
(* (src/libserver/redis_pool.c).                                           *)
(*                                                                         *)
(* Scores are doubles in the source.  They are modelled by integers with   *)
(* exact arithmetic; NaN is the distinguished value NAN, which never       *)
(* enters an arithmetic operator (Add propagates it).  Weights, flags and  *)
(* settings overrides are non-zero, so a negative zero never arises and    *)
(* signbit(x) is x < 0.                                                    *)
(***************************************************************************)
EXTENDS Integers, Sequences, FiniteSets, TLC

(* ------------------------------ bounds -------------------------------- *)
\* number of operations performed on one task
MaxOps == 3
\* number of operations on one task when every threshold assignment is explored
MaxActOps == 2
\* number of operations on one task when the options are explored
MaxOptOps == 4
\* number of datagrams and sync timers handled by the fuzzy worker
MaxDatagrams == 2
\* cfg->default_max_shots (a configuration value; small here)
default_max_shots == 2
\* updates queued, update batches, checks and expirations on the redis backend
MaxRedisOps == 4
\* updates queued in one batch
MaxBatch == 2
\* connections the pool can hold at one time
MaxConns == 3
\* operations performed on the pool of connections
MaxPoolOps == 6
\* pool->max_conns (100 by default; small here)
max_conns == 1

(* --------------------------- program values --------------------------- *)
NAN == 1000000
NULL == "NULL"

isnan(x) == x = NAN

Add(x, y) == IF isnan(x) \/ isnan(y) THEN NAN ELSE x + y

fabs(x) == IF x < 0 THEN -x ELSE x

signbit(x) == x < 0

\* enum rspamd_metric_action, most severe first
METRIC_ACTION_REJECT == 0
METRIC_ACTION_REWRITE_SUBJECT == 1
METRIC_ACTION_ADD_HEADER == 2
METRIC_ACTION_GREYLIST == 3
METRIC_ACTION_NOACTION == 4
METRIC_ACTION_MAX == 5

ActionLevels == METRIC_ACTION_REJECT .. (METRIC_ACTION_MAX - 1)

(* --------------------------- configuration ---------------------------- *)
\* metric->symbols: A and B are defined and belong to group G, U has no
\* definition (sdef == NULL)
Symbols == {"A", "B", "U"}
DefinedSymbols == {"A", "B"}
Flags == {-1, 1, 2}
Options == {NULL, "a", "A", "b"}

\* *sdef->weight_ptr
weight(sym) == 5

\* sdef->nshots: A is registered one_shot, B takes cfg->default_max_shots
sdef_nshots(sym) == IF sym = "A" THEN 1 ELSE default_max_shots

\* rspamd_strcase_hash / rspamd_strcase_equal: keys compare without case
strcase(o) == IF o = "A" THEN "a" ELSE o

VARIABLES
    score,            \* metric_res->score
    grow_factor,      \* metric_res->grow_factor
    symbols,          \* metric_res->symbols: name -> symbol result
    sym_groups,       \* metric_res->sym_groups: group -> accumulated score
    mres_action,      \* metric_res->action
    pre_result,       \* task->pre_result.action
    pre_str,          \* task->pre_result.str
    actions_limits,   \* metric_res->actions_limits (= metric->actions[i].score)
    max_score,        \* gr->max_score of group G
    metric_grow_factor, \* metric->grow_factor
    settings,         \* task->settings: symbol -> replacement score, NAN when
                      \* the settings are NULL or hold no number for the symbol
    oneparam,         \* symbols whose definition has RSPAMD_SYMBOL_FLAG_ONEPARAM
    ret,              \* value returned by the last rspamd_check_action_metric
    nops,             \* operations performed so far
    records,          \* fuzzy backend: digest -> stored value and flag
    update_ips,       \* ctx->update_ips: NULL or the set of allowed addresses
    fuzzy_hashes,     \* server_stat->fuzzy_hashes
    hashes_checked,   \* server_stat->fuzzy_hashes_checked[epoch]
    hashes_found,     \* server_stat->fuzzy_hashes_found[epoch]
    session,          \* the fuzzy_session of the last datagram: cmd, addr, legacy
    reply,            \* the reply handed to rspamd_fuzzy_write_reply, if any
    wire,             \* the datagram sent back, if any
    backend_updates,  \* calls of the backend's add and del so far
    ndgrams,          \* datagrams received so far
    nsyncs,           \* sync timers fired so far
    redis,            \* the keys held by the redis server
    redis_session,    \* the rspamd_fuzzy_redis_session of the check in progress
    redis_reply,      \* the reply handed to cb_check, if any
    redis_queue,      \* the queue of updates the next update call is given
    redis_update,     \* the result the last update call handed to cb_update
    nredis,           \* updates, checks and expirations so far
    pool,             \* struct rspamd_redis_pool with its elements and connections
    pool_ret,         \* the context returned by the last rspamd_redis_pool_connect
    pool_held,        \* the contexts handed out and not yet released
    npool,            \* operations performed on the pool so far
    req,              \* the rspamd_fuzzy_redis_session of a backend request
    nreq,             \* backend requests started so far
    stat,             \* what the last classify or learn did to the statfile backends
    stat_cfg,         \* clcf->min_tokens and clcf->max_tokens of each classifier
    nstat,            \* classify and learn calls so far
    cache,            \* cfg->cache with the checkpoint of the task being scanned
    ncache,           \* registrations and dependency declarations so far
    ups,              \* backend->read_servers: the upstreams and the clock
    nups,             \* calls on the upstreams so far
    lua_ctx,          \* a struct lua_redis_ctx of a script and its commands
    nlua              \* calls of the script on the context so far

vars == <<score, grow_factor, symbols, sym_groups, mres_action, pre_result,
          pre_str, actions_limits, max_score, metric_grow_factor, settings, oneparam,
          ret, nops, records, update_ips, fuzzy_hashes, hashes_checked,
          hashes_found, session, reply, wire, backend_updates, ndgrams,
          nsyncs, redis, redis_session, redis_reply, redis_queue, redis_update,
          nredis,
          pool, pool_ret, pool_held, npool, req, nreq, lua_ctx, nlua,
          stat, stat_cfg, nstat, cache, ncache, ups, nups>>

cfgvars == <<actions_limits, max_score, metric_grow_factor, settings, oneparam>>

taskvars == <<score, grow_factor, symbols, sym_groups, mres_action, pre_result,
              pre_str, ret, nops>>

fuzzyvars == <<records, update_ips, fuzzy_hashes, hashes_checked, hashes_found,
               session, reply, wire, backend_updates, ndgrams, nsyncs>>

redisvars ==
    <<redis, redis_session, redis_reply, redis_queue, redis_update, nredis>>

poolvars == <<pool, pool_ret, pool_held, npool>>

reqvars == <<req, nreq>>

statvars == <<stat, stat_cfg, nstat>>

cachevars == <<cache, ncache>>

upvars == <<ups, nups>>

\* the state of the libraries a step on the task or on the fuzzy storage
\* leaves alone
luavars == <<lua_ctx, nlua>>

libvars == <<reqvars, luavars, statvars, cachevars, upvars>>

\* g_hash_table_lookup (metric_res->symbols, symbol) == NULL
NoSym == [present |-> FALSE, score |-> 0, nshots |-> 0, options |-> <<>>]

\* g_hash_table_lookup (s->options, opt)
options_lookup(opts, val) ==
    \E i \in 1..Len(opts) : strcase(opts[i]) = strcase(val)

\* rspamd_task_add_result_option: the new option list of s
add_result_option_nodedup(s, sym, val) ==
    IF val = NULL THEN s.options
    ELSE IF s.options /= <<>> /\ ~(sym \in DefinedSymbols /\ sym \in oneparam)
            /\ Len(s.options) < default_max_shots
         THEN Append(s.options, val)
         ELSE <<val>>

rspamd_task_add_result_option(s, sym, val) ==
    IF val = NULL THEN s.options
    ELSE IF s.options /= <<>> /\ ~(sym \in DefinedSymbols /\ sym \in oneparam)
            /\ Len(s.options) < default_max_shots
         THEN IF ~options_lookup(s.options, val)
              THEN Append(s.options, val)
              ELSE s.options
         ELSE <<val>>

\* rspamd_check_group_score; has_gr is gr != NULL && group_score
check_group_score_noclip(has_gr, gr_max, group_score, w) ==
    IF has_gr /\ gr_max > 0 /\ w > 0
    THEN IF group_score >= gr_max THEN NAN ELSE w
    ELSE w

check_group_score_zero(has_gr, gr_max, group_score, w) ==
    IF has_gr /\ gr_max > 0 /\ w > 0
    THEN IF group_score >= gr_max THEN 0
         ELSE IF group_score + w > gr_max THEN gr_max - group_score
         ELSE w
    ELSE w

rspamd_check_group_score(has_gr, gr_max, group_score, w) ==
    IF has_gr /\ gr_max > 0 /\ w > 0
    THEN IF group_score >= gr_max THEN NAN
         ELSE IF group_score + w > gr_max THEN gr_max - group_score
         ELSE w
    ELSE w

\* the weight of an insertion: definition weight times flag, replaced by the
\* settings score times flag when the task settings name the symbol
insert_weight(symbol, flag) ==
    LET w0 == IF symbol \in DefinedSymbols THEN weight(symbol) * flag ELSE 0
    IN  IF ~isnan(settings[symbol])
        THEN settings[symbol] * flag
        ELSE w0

\* the group score slot of the symbol, created at 0 on first use
group_slot(symbol) ==
    IF symbol \in DefinedSymbols
    THEN IF "G" \in DOMAIN sym_groups THEN sym_groups["G"] ELSE 0
    ELSE 0

\* max_shots of a repeated insertion
max_shots_of(symbol, single) ==
    IF single THEN 1
    ELSE IF symbol \in DefinedSymbols THEN sdef_nshots(symbol)
    ELSE default_max_shots

\* single after the max_shots test and the duplicate option test
single_of(s, symbol, opt, single) ==
    LET ms == max_shots_of(symbol, single)
        s1 == IF ~single /\ (ms > 0 /\ s.nshots >= ms) THEN TRUE ELSE single
    IN  IF opt /= NULL /\ s.options /= <<>> /\ options_lookup(s.options, opt)
        THEN TRUE
        ELSE s1

\* diff of a repeated insertion, before grow factor and group cap
adjust_diff(s, w, sgl) ==
    IF ~sgl THEN w
    ELSE IF fabs(s.score) < fabs(w) /\ signbit(s.score) = signbit(w)
         THEN w - s.score
         ELSE 0

\* insert_metric_result: the metric result after the insertion, as a record
insert_metric_result(symbol, flag, opt, single) ==
    LET has_gr == symbol \in DefinedSymbols
        w == insert_weight(symbol, flag)
        gr_score == group_slot(symbol)
        groups0 == IF has_gr /\ "G" \notin DOMAIN sym_groups
                   THEN [g \in {"G"} |-> 0] ELSE sym_groups
        s == symbols[symbol]
    IN  IF s.present
        THEN LET sgl == single_of(s, symbol, opt, single)
                 dupopt == opt /= NULL /\ s.options /= <<>>
                           /\ options_lookup(s.options, opt)
                 s2 == IF dupopt THEN s
                       ELSE [s EXCEPT !.nshots = @ + 1,
                                      !.options =
                                         rspamd_task_add_result_option(s, symbol, opt)]
                 diff0 == adjust_diff(s, w, sgl)
                 scaled == diff0 > 0 /\ grow_factor /= 0
                 diff1 == IF scaled THEN diff0 * grow_factor ELSE diff0
                 next_gf == IF scaled THEN 1 * metric_grow_factor
                            ELSE IF diff0 > 0 THEN metric_grow_factor ELSE 1
                 diff == rspamd_check_group_score(has_gr, max_score, gr_score, diff1)
             IN  IF diff0 /= 0 /\ ~isnan(diff)
                 THEN [score |-> Add(score, diff),
                       grow_factor |-> next_gf,
                       sym_groups |-> IF has_gr
                                      THEN [groups0 EXCEPT !["G"] = @ + diff]
                                      ELSE groups0,
                       symbols |-> [symbols EXCEPT ![symbol] =
                                      [s2 EXCEPT !.score =
                                          IF sgl THEN w ELSE @ + diff]]]
                 ELSE [score |-> score,
                       grow_factor |-> grow_factor,
                       sym_groups |-> groups0,
                       symbols |-> [symbols EXCEPT ![symbol] = s2]]
        ELSE LET scaled == grow_factor /= 0 /\ w > 0
                 w1 == IF scaled THEN w * grow_factor ELSE w
                 next_gf == IF scaled THEN 1 * metric_grow_factor
                            ELSE IF w > 0 THEN metric_grow_factor ELSE 1
                 w2 == rspamd_check_group_score(has_gr, max_score, gr_score, w1)
                 s0 == [present |-> TRUE, score |-> 0, nshots |-> 1,
                        options |-> <<>>]
                 s1 == [s0 EXCEPT !.score = IF isnan(w2) THEN 0 ELSE w2]
                 s2 == [s1 EXCEPT !.options =
                           rspamd_task_add_result_option(s1, symbol, opt)]
             IN  IF ~isnan(w2)
                 THEN [score |-> Add(score, w2),
                       grow_factor |-> next_gf,
                       sym_groups |-> IF has_gr
                                      THEN [groups0 EXCEPT !["G"] = @ + w2]
                                      ELSE groups0,
                       symbols |-> [symbols EXCEPT ![symbol] = s2]]
                 ELSE [score |-> score,
                       grow_factor |-> grow_factor,
                       sym_groups |-> groups0,
                       symbols |-> [symbols EXCEPT ![symbol] = s2]]

(* --------------------------- action selection ------------------------- *)
\* no pre-result: the loop of rspamd_check_action_metric over i = REJECT..MAX-1;
\* sel is selected_action (METRIC_ACTION_MAX stands for NULL), msc is max_score
RECURSIVE check_loop_first(_, _, _)
check_loop_first(i, sel, msc) ==
    IF i >= METRIC_ACTION_MAX THEN sel
    ELSE LET sc == actions_limits[i]
         IN  IF isnan(sc) THEN check_loop_first(i + 1, sel, msc)
             ELSE IF ~isnan(score) /\ score >= sc /\ sel = METRIC_ACTION_MAX
                  THEN check_loop_first(i + 1, i, sc)
                  ELSE check_loop_first(i + 1, sel, msc)

RECURSIVE check_loop(_, _, _)
check_loop(i, sel, msc) ==
    IF i >= METRIC_ACTION_MAX THEN sel
    ELSE LET sc == actions_limits[i]
         IN  IF isnan(sc) THEN check_loop(i + 1, sel, msc)
             ELSE IF ~isnan(score) /\ score >= sc /\ sc > msc
                  THEN check_loop(i + 1, i, sc)
                  ELSE check_loop(i + 1, sel, msc)

\* pre-result set: the loop over i = pre_result..MAX-1; the result is
\* <<selected_action, sc>>
RECURSIVE pre_loop_search(_)
pre_loop_search(i) ==
    IF i >= METRIC_ACTION_MAX THEN <<METRIC_ACTION_MAX - 1, NAN>>
    ELSE LET sc == actions_limits[i]
         IN  IF isnan(sc) THEN pre_loop_search(i + 1)
             ELSE <<i, sc>>

RECURSIVE pre_loop(_)
pre_loop(i) ==
    IF i >= METRIC_ACTION_MAX THEN <<METRIC_ACTION_MAX - 1, NAN>>
    ELSE LET sc == actions_limits[i]
         IN  IF isnan(sc)
             THEN IF i = pre_result THEN <<i, 0>>
                  ELSE pre_loop(i + 1)
             ELSE <<i, sc>>

\* rspamd_check_action_metric: <<returned action, metric_res->score afterwards>>;
\* metric->actions[i].action is i
rspamd_check_action_metric ==
    IF pre_result = METRIC_ACTION_MAX
    THEN LET sel == check_loop(METRIC_ACTION_REJECT, METRIC_ACTION_MAX, 0)
         IN  <<IF sel /= METRIC_ACTION_MAX THEN sel ELSE METRIC_ACTION_NOACTION,
               score>>
    ELSE LET r == pre_loop(pre_result)
         IN  <<r[1], IF ~isnan(r[2]) THEN r[2] ELSE 0>>

(* ------------------------- fuzzy storage worker ----------------------- *)
\* shingles per command; prob is counted in 1/RSPAMD_SHINGLE_SIZE, so that
\* prob = 1.0 is RSPAMD_SHINGLE_SIZE and prob > 0.5 is prob > RSPAMD_SHINGLE_SIZE / 2
RSPAMD_SHINGLE_SIZE == 32
RSPAMD_FUZZY_VERSION == 3

FUZZY_CHECK == 0
FUZZY_WRITE == 1
FUZZY_DEL == 2

Epochs == {"EPOCH6", "EPOCH8", "EPOCH9"}
RSPAMD_FUZZY_EPOCH_MAX == "EPOCH_MAX"

Digests == {"d1", "d2"}
Addrs == {"ip1", "ip2"}
\* the size r of a datagram, by the comparisons the server makes: the legacy
\* command, the plain command, the command with shingles, another size that is
\* >= the plain command, a size below it
Sizes == {"legacy", "cmd", "shingle_cmd", "other", "short"}
Versions == {RSPAMD_FUZZY_VERSION, 2, 1}
Cmds == {FUZZY_CHECK, FUZZY_WRITE, FUZZY_DEL}
CmdFlags == {1, 7}
CmdValues == {3}
CmdTags == {9}
ShingleCounts == {0, RSPAMD_SHINGLE_SIZE}

NoReply == [sent |-> FALSE, value |-> 0, flag |-> 0, prob |-> 0, tag |-> 0]
NoWire == <<>>
\* no command was handed on (cmd == NULL)
NoSession == [legacy |-> FALSE, addr |-> NULL, epoch |-> RSPAMD_FUZZY_EPOCH_MAX,
              cmd |-> [size |-> "short", version |-> 0, cmd |-> FUZZY_CHECK,
                       shingles_count |-> 0, flag |-> 0, value |-> 0,
                       digest |-> NULL, tag |-> 0]]

\* rspamd_fuzzy_backend_check: the stored record with prob = 1.0, or the zero
\* reply
rspamd_fuzzy_backend_check(recs, cmd) ==
    IF cmd.digest \in DOMAIN recs
    THEN [value |-> recs[cmd.digest].value, flag |-> recs[cmd.digest].flag,
          prob |-> RSPAMD_SHINGLE_SIZE, tag |-> 0]
    ELSE [value |-> 0, flag |-> 0, prob |-> 0, tag |-> 0]

\* rspamd_fuzzy_backend_add: the value is added to the stored one, the flag
\* replaced
rspamd_fuzzy_backend_add(recs, cmd) ==
    IF cmd.digest \in DOMAIN recs
    THEN [recs EXCEPT ![cmd.digest] =
             [value |-> @.value + cmd.value, flag |-> cmd.flag]]
    ELSE [d \in DOMAIN recs \cup {cmd.digest} |->
             IF d = cmd.digest THEN [value |-> cmd.value, flag |-> cmd.flag]
             ELSE recs[d]]

\* rspamd_fuzzy_backend_del
rspamd_fuzzy_backend_del(recs, cmd) ==
    [d \in DOMAIN recs \ {cmd.digest} |-> recs[d]]

\* rspamd_fuzzy_backend_count
rspamd_fuzzy_backend_count(recs) == Cardinality(DOMAIN recs)

\* rspamd_fuzzy_check_client
check_client_open(addr) == TRUE

rspamd_fuzzy_check_client(addr) ==
    IF update_ips /= {NULL}
    THEN addr \in update_ips
    ELSE TRUE

\* rspamd_fuzzy_command_valid
rspamd_fuzzy_command_valid(cmd, r) ==
    IF cmd.version = RSPAMD_FUZZY_VERSION
    THEN IF cmd.shingles_count > 0
         THEN IF r = "shingle_cmd" THEN "EPOCH9" ELSE RSPAMD_FUZZY_EPOCH_MAX
         ELSE IF r = "cmd" THEN "EPOCH9" ELSE RSPAMD_FUZZY_EPOCH_MAX
    ELSE IF cmd.version = 2
         THEN IF cmd.shingles_count > 0
              THEN IF r = "shingle_cmd" THEN "EPOCH8" ELSE RSPAMD_FUZZY_EPOCH_MAX
              ELSE "EPOCH8"
         ELSE RSPAMD_FUZZY_EPOCH_MAX

\* rspamd_fuzzy_write_reply: the text sent to a legacy client, the reply
\* structure sent to the others
rspamd_fuzzy_write_reply(legacy, cmd, rep) ==
    IF legacy
    THEN IF rep.prob > RSPAMD_SHINGLE_SIZE \div 2
         THEN IF cmd.cmd = FUZZY_CHECK THEN <<"OK", rep.value, rep.flag>>
              ELSE <<"OK">>
         ELSE <<"ERR">>
    ELSE <<rep.value, rep.flag, rep.prob, rep.tag>>

\* the reply rspamd_fuzzy_process_command builds for a Write or a Delete:
\* allowed is the result of rspamd_fuzzy_check_client, res the backend's
update_reply(cmd, allowed, res) ==
    [value |-> IF ~allowed THEN 403 ELSE IF ~res THEN 404 ELSE 0,
     flag |-> cmd.flag,
     prob |-> IF allowed /\ res THEN RSPAMD_SHINGLE_SIZE ELSE 0,
     tag |-> cmd.tag]

\* rspamd_fuzzy_process_command counting every Check as found
process_command_all_found(legacy, cmd, addr, epoch, res) ==
    IF cmd.cmd = FUZZY_CHECK
    THEN LET rep == [rspamd_fuzzy_backend_check(records, cmd)
                        EXCEPT !.tag = cmd.tag]
         IN  /\ hashes_checked' = [hashes_checked EXCEPT ![epoch] = @ + 1]
             /\ hashes_found' = [hashes_found EXCEPT ![epoch] = @ + 1]
             /\ reply' = [sent |-> TRUE, value |-> rep.value, flag |-> rep.flag,
                          prob |-> rep.prob, tag |-> rep.tag]
             /\ wire' = rspamd_fuzzy_write_reply(legacy, cmd, rep)
             /\ UNCHANGED <<records, fuzzy_hashes, backend_updates>>
    ELSE LET allowed == rspamd_fuzzy_check_client(addr)
             recs == IF allowed /\ res
                     THEN IF cmd.cmd = FUZZY_WRITE
                          THEN rspamd_fuzzy_backend_add(records, cmd)
                          ELSE rspamd_fuzzy_backend_del(records, cmd)
                     ELSE records
             rep == update_reply(cmd, allowed, res)
         IN  /\ records' = recs
             /\ backend_updates' = IF allowed THEN backend_updates + 1
                                   ELSE backend_updates
             /\ fuzzy_hashes' = rspamd_fuzzy_backend_count(recs)
             /\ reply' = [sent |-> TRUE, value |-> rep.value, flag |-> rep.flag,
                          prob |-> rep.prob, tag |-> rep.tag]
             /\ wire' = rspamd_fuzzy_write_reply(legacy, cmd, rep)
             /\ UNCHANGED <<hashes_checked, hashes_found>>

\* rspamd_fuzzy_process_command; res is the result of the backend's add or del
rspamd_fuzzy_process_command(legacy, cmd, addr, epoch, res) ==
    IF cmd.cmd = FUZZY_CHECK
    THEN LET rep == [rspamd_fuzzy_backend_check(records, cmd)
                        EXCEPT !.tag = cmd.tag]
         IN  /\ hashes_checked' = [hashes_checked EXCEPT ![epoch] = @ + 1]
             /\ hashes_found' = IF rep.prob > RSPAMD_SHINGLE_SIZE \div 2
                                THEN [hashes_found EXCEPT ![epoch] = @ + 1]
                                ELSE hashes_found
             /\ reply' = [sent |-> TRUE, value |-> rep.value, flag |-> rep.flag,
                          prob |-> rep.prob, tag |-> rep.tag]
             /\ wire' = rspamd_fuzzy_write_reply(legacy, cmd, rep)
             /\ UNCHANGED <<records, fuzzy_hashes, backend_updates>>
    ELSE LET allowed == rspamd_fuzzy_check_client(addr)
             recs == IF allowed /\ res
                     THEN IF cmd.cmd = FUZZY_WRITE
                          THEN rspamd_fuzzy_backend_add(records, cmd)
                          ELSE rspamd_fuzzy_backend_del(records, cmd)
                     ELSE records
             rep == update_reply(cmd, allowed, res)
         IN  /\ records' = recs
             /\ backend_updates' = IF allowed THEN backend_updates + 1
                                   ELSE backend_updates
             /\ fuzzy_hashes' = rspamd_fuzzy_backend_count(recs)
             /\ reply' = [sent |-> TRUE, value |-> rep.value, flag |-> rep.flag,
                          prob |-> rep.prob, tag |-> rep.tag]
             /\ wire' = rspamd_fuzzy_write_reply(legacy, cmd, rep)
             /\ UNCHANGED <<hashes_checked, hashes_found>>

\* the command a datagram carries
Datagram(r, version, c, count, flag, value, digest, tag) ==
    [size |-> r, version |-> version, cmd |-> c, shingles_count |-> count,
     flag |-> flag, value |-> value, digest |-> digest, tag |-> tag]

\* the command handed to rspamd_fuzzy_process_command for a datagram
session_cmd(dg) ==
    IF dg.size = "legacy"
    THEN [dg EXCEPT !.version = 2, !.shingles_count = 0, !.tag = 0]
    ELSE dg

\* the epoch of a datagram, RSPAMD_FUZZY_EPOCH_MAX when it is discarded
session_epoch(dg) ==
    IF dg.size = "legacy" THEN "EPOCH6"
    ELSE IF dg.size \in {"cmd", "shingle_cmd", "other"}
         THEN rspamd_fuzzy_command_valid(dg, dg.size)
         ELSE RSPAMD_FUZZY_EPOCH_MAX

\* accept_fuzzy_socket for one datagram dg received from addr
accept_fuzzy_socket(dg, addr, res) ==
    /\ ndgrams' = ndgrams + 1
    /\ IF session_epoch(dg) /= RSPAMD_FUZZY_EPOCH_MAX
       THEN /\ session' = [legacy |-> dg.size = "legacy", addr |-> addr,
                           epoch |-> session_epoch(dg), cmd |-> session_cmd(dg)]
            /\ rspamd_fuzzy_process_command(dg.size = "legacy", session_cmd(dg),
                                            addr, session_epoch(dg), res)
       ELSE /\ session' = NoSession
            /\ reply' = NoReply
            /\ wire' = NoWire
            /\ UNCHANGED <<records, fuzzy_hashes, hashes_checked, hashes_found,
                           backend_updates>>
    /\ UNCHANGED <<update_ips, nsyncs, taskvars, cfgvars, libvars, redisvars, poolvars>>

AcceptFuzzySocket ==
    /\ ndgrams + nsyncs < MaxDatagrams
    /\ \E r \in Sizes, version \in Versions, c \in Cmds,
          count \in ShingleCounts, flag \in CmdFlags, value \in CmdValues,
          digest \in Digests, tag \in CmdTags, addr \in Addrs, res \in BOOLEAN :
          accept_fuzzy_socket(Datagram(r, version, c, count, flag, value,
                                       digest, tag), addr, res)

\* sync_callback: the backend drops the records that have expired
SyncCallback ==
    /\ ndgrams + nsyncs < MaxDatagrams
    /\ \E expired \in SUBSET (DOMAIN records) :
          /\ expired /= {}
          /\ records' = [d \in DOMAIN records \ expired |-> records[d]]
    /\ nsyncs' = nsyncs + 1
    /\ UNCHANGED <<update_ips, fuzzy_hashes, hashes_checked, hashes_found,
                   ndgrams, session, reply, wire, backend_updates, taskvars,
                   cfgvars, libvars, redisvars, poolvars>>

\* the store the backend opens: empty, or holding d1 from an earlier run
StoredD1 == [d \in {"d1"} |-> [value |-> 3, flag |-> 7]]

FuzzyInit ==
    /\ records \in {<<>>, StoredD1}
    /\ fuzzy_hashes = rspamd_fuzzy_backend_count(records)
    /\ hashes_checked = [e \in Epochs |-> 0]
    /\ hashes_found = [e \in Epochs |-> 0]
    /\ session = NoSession
    /\ reply = NoReply
    /\ wire = NoWire
    /\ backend_updates = 0
    /\ ndgrams = 0
    /\ nsyncs = 0

(* ------------------ redis backend of the fuzzy storage ---------------- *)
\* backend->redis_object, the prefix of every key
redis_object == "fuzzy"

\* io_cmd->is_shingle is false
NoShingles == -1

\* the shingle hashes of a command are given by a number k: the first k
\* hashes are "p", the others are "q"
shingle_hash(k, i) == IF i < k THEN "p" ELSE "q"

ShingleHashes == {"p", "q"}
CheckShingles == {NoShingles, 15, 16, 17, RSPAMD_SHINGLE_SIZE}
\* the digests of the Check commands: those of the updates and one more
CheckDigests == Digests \cup {"d3"}
\* flag and value of the updates
UpdateArgs == {<<1, 3>>, <<7, 4>>}
UpdateSrc == "local"

\* <prefix><digest>, <prefix>_<i>_<hash>, <prefix>_count, <prefix><src>
HashKey(digest) == <<redis_object, digest>>
ShingleKey(i, hash) == <<redis_object, i, hash>>
CountKey == <<redis_object, "_count">>
SrcKey(src) == <<redis_object, src>>

EmptyDb == [k \in {} |-> 0]

\* the server's reply for a field or a key that does not exist
Nil == [type |-> "nil", str |-> 0]
String(v) == [type |-> "string", str |-> v]

\* the fields of a hash key, none when it does not exist
redis_hash(db, key) == IF key \in DOMAIN db THEN db[key] ELSE EmptyDb

\* a key as a transaction finds it: set is FALSE when it does not exist
redis_value(db, key) ==
    IF key \in DOMAIN db THEN [set |-> TRUE, val |-> db[key]]
    ELSE [set |-> FALSE, val |-> 0]

\* a field of a hash set to a value
redis_hset(h, field, val) ==
    [f \in DOMAIN h \cup {field} |-> IF f = field THEN val ELSE h[f]]

\* redis_command with a DEL that removes nothing
redis_command_no_del(v, c) ==
    LET h == IF v.set THEN v.val ELSE EmptyDb
        n == IF v.set THEN v.val ELSE 0
    IN  CASE c.op = "HSET" ->
                [set |-> TRUE, val |-> redis_hset(h, c.field, c.val)]
          [] c.op = "HINCRBY" ->
                [set |-> TRUE,
                 val |-> redis_hset(h, c.field,
                            (IF c.field \in DOMAIN h THEN h[c.field] ELSE 0)
                            + c.val)]
          [] c.op = "SETEX" -> [set |-> TRUE, val |-> c.val]
          [] c.op = "INCR" -> [set |-> TRUE, val |-> n + 1]
          [] c.op = "DECR" -> [set |-> TRUE, val |-> n - 1]
          [] OTHER -> v

\* the effect of one command on the key it names (EXPIRE only sets the time
\* to live, which RedisExpire models)
redis_command(v, c) ==
    LET h == IF v.set THEN v.val ELSE EmptyDb
        n == IF v.set THEN v.val ELSE 0
    IN  CASE c.op = "HSET" ->
                [set |-> TRUE, val |-> redis_hset(h, c.field, c.val)]
          [] c.op = "HINCRBY" ->
                [set |-> TRUE,
                 val |-> redis_hset(h, c.field,
                            (IF c.field \in DOMAIN h THEN h[c.field] ELSE 0)
                            + c.val)]
          [] c.op = "SETEX" -> [set |-> TRUE, val |-> c.val]
          [] c.op = "INCR" -> [set |-> TRUE, val |-> n + 1]
          [] c.op = "DECR" -> [set |-> TRUE, val |-> n - 1]
          [] c.op = "DEL" -> [set |-> FALSE, val |-> 0]
          [] OTHER -> v

\* the commands of a transaction that name one key, executed in their order
RECURSIVE redis_exec_key(_, _)
redis_exec_key(v, cmds) ==
    IF cmds = <<>> THEN v
    ELSE redis_exec_key(redis_command(v, Head(cmds)), Tail(cmds))

\* the commands that name a key (MULTI and EXEC name none)
has_key(c) == c.op \notin {"MULTI", "EXEC"}

\* the commands of a transaction executed in their order: commands that name
\* different keys do not affect each other, so that every key ends as the
\* commands that name it leave it
redis_exec(db, cmds) ==
    LET named == SelectSeq(cmds, has_key)
        keys == DOMAIN db \cup {named[i].key : i \in 1..Len(named)}
        of(k) == LET on_key(c) == c.key = k
                 IN  redis_exec_key(redis_value(db, k),
                                    SelectSeq(named, on_key))
    IN  [k \in {k \in keys : of(k).set} |-> of(k).val]

\* HMGET <key> V F
redis_hmget(db, key) ==
    LET h == redis_hash(db, key)
    IN  <<IF "V" \in DOMAIN h THEN String(h["V"]) ELSE Nil,
          IF "F" \in DOMAIN h THEN String(h["F"]) ELSE Nil>>

\* MGET of the RSPAMD_SHINGLE_SIZE shingle keys of a command
redis_mget(db, k) ==
    [i \in 1..RSPAMD_SHINGLE_SIZE |->
        LET key == ShingleKey(i - 1, shingle_hash(k, i - 1))
        IN  IF key \in DOMAIN db THEN String(db[key]) ELSE Nil]

\* strtoul on the decimal string of a stored number, assigned to a 32 bit
\* field of the reply: a number that fits 32 bits is read back as it is (the
\* unsigned long read for a negative one wraps to it again); the numbers
\* stored here all fit
strtoul(v) == v

\* the commands rspamd_fuzzy_update_append_command emits for the shingles
RECURSIVE append_shingles(_, _)
append_shingles(io_cmd, i) ==
    IF i >= RSPAMD_SHINGLE_SIZE THEN <<>>
    ELSE LET key == ShingleKey(i, shingle_hash(io_cmd.shingles, i))
         IN  <<IF io_cmd.cmd = FUZZY_WRITE
               THEN [op |-> "SETEX", key |-> key, val |-> io_cmd.digest]
               ELSE [op |-> "DEL", key |-> key]>>
             \o append_shingles(io_cmd, i + 1)

\* rspamd_fuzzy_update_append_command with HSET <key> V <value> in the place
\* of HINCRBY
append_command_set_value(io_cmd) ==
    (IF io_cmd.cmd = FUZZY_WRITE
     THEN <<[op |-> "HSET", key |-> HashKey(io_cmd.digest), field |-> "F",
             val |-> io_cmd.flag],
            [op |-> "HSET", key |-> HashKey(io_cmd.digest), field |-> "V",
             val |-> io_cmd.value],
            [op |-> "EXPIRE", key |-> HashKey(io_cmd.digest)],
            [op |-> "INCR", key |-> CountKey]>>
     ELSE <<[op |-> "DEL", key |-> HashKey(io_cmd.digest)],
            [op |-> "DECR", key |-> CountKey]>>)
    \o (IF io_cmd.shingles /= NoShingles THEN append_shingles(io_cmd, 0)
        ELSE <<>>)

\* rspamd_fuzzy_update_append_command without HSET <key> F <flag>
append_command_no_flag(io_cmd) ==
    (IF io_cmd.cmd = FUZZY_WRITE
     THEN <<[op |-> "HINCRBY", key |-> HashKey(io_cmd.digest), field |-> "V",
             val |-> io_cmd.value],
            [op |-> "EXPIRE", key |-> HashKey(io_cmd.digest)],
            [op |-> "INCR", key |-> CountKey]>>
     ELSE <<[op |-> "DEL", key |-> HashKey(io_cmd.digest)],
            [op |-> "DECR", key |-> CountKey]>>)
    \o (IF io_cmd.shingles /= NoShingles THEN append_shingles(io_cmd, 0)
        ELSE <<>>)

\* rspamd_fuzzy_update_append_command: the commands emitted for one update
rspamd_fuzzy_update_append_command(io_cmd) ==
    (IF io_cmd.cmd = FUZZY_WRITE
     THEN <<[op |-> "HSET", key |-> HashKey(io_cmd.digest), field |-> "F",
             val |-> io_cmd.flag],
            [op |-> "HINCRBY", key |-> HashKey(io_cmd.digest), field |-> "V",
             val |-> io_cmd.value],
            [op |-> "EXPIRE", key |-> HashKey(io_cmd.digest)],
            [op |-> "INCR", key |-> CountKey]>>
     ELSE <<[op |-> "DEL", key |-> HashKey(io_cmd.digest)],
            [op |-> "DECR", key |-> CountKey]>>)
    \o (IF io_cmd.shingles /= NoShingles THEN append_shingles(io_cmd, 0)
        ELSE <<>>)

\* the commands of the updates of a batch, in the order of the queue
RECURSIVE append_commands(_)
append_commands(updates) ==
    IF updates = <<>> THEN <<>>
    ELSE rspamd_fuzzy_update_append_command(Head(updates))
         \o append_commands(Tail(updates))

\* the transaction rspamd_fuzzy_backend_update_redis sends for a batch
update_transaction(updates, src) ==
    <<[op |-> "MULTI"]>> \o append_commands(updates)
    \o <<[op |-> "INCR", key |-> SrcKey(src)], [op |-> "EXEC"]>>

\* res is what cb_update was called with, exec whether EXEC was queued on the
\* connection, closed whether the connection was released as fatal by the call
NoUpdate == [res |-> FALSE, called |-> FALSE, exec |-> FALSE, closed |-> FALSE]

\* rspamd_fuzzy_backend_update_redis that sends what it queued when a command
\* cannot be queued
update_redis_partial(updates, src, st, queued) ==
    LET tx == update_transaction(updates, src)
    IN  /\ redis' = IF st \in {"ok", "lost"}
                    THEN redis_exec(redis, tx)
                    ELSE IF st = "fail"
                         THEN redis_exec(redis, SubSeq(tx, 1, queued))
                         ELSE redis
        /\ redis_update' = [res |-> st = "ok", called |-> TRUE,
                            exec |-> st /= "null" /\ queued = Len(tx),
                            closed |-> st = "fail"]

\* rspamd_fuzzy_backend_update_redis with rspamd_fuzzy_redis_update_callback.
\* st is what happens to the request: "null" no connection, "fail" a command
\* cannot be queued, "err" the connection fails before the transaction is
\* executed, "lost" it fails after that, "ok" the reply of EXEC arrives;
\* queued is the number of commands of the transaction the connection accepted
rspamd_fuzzy_backend_update_redis(updates, src, st, queued) ==
    LET tx == update_transaction(updates, src)
    IN  /\ redis' = IF st \in {"ok", "lost"}
                    THEN redis_exec(redis, tx)
                    ELSE redis
        /\ redis_update' = [res |-> st = "ok", called |-> TRUE,
                            exec |-> st /= "null" /\ queued = Len(tx),
                            closed |-> st = "fail"]

\* rspamd_fuzzy_backend_count_redis with rspamd_fuzzy_redis_count_callback: the
\* integer read from <prefix>_count, 0 when the key is not set
rspamd_fuzzy_backend_count_redis(db) ==
    IF CountKey \in DOMAIN db THEN db[CountKey] ELSE 0

\* the reply all of whose fields are 0
ZeroReply == [value |-> 0, flag |-> 0, prob |-> 0]

NoRedisReply == [sent |-> FALSE, value |-> 0, flag |-> 0, prob |-> 0]

\* lookups counts the commands the session has sent to the server
NoRedisSession == [pc |-> "idle", cmd |-> [digest |-> NULL, shingles |-> NoShingles],
                   key |-> NULL, prob |-> 0, shingles_checked |-> FALSE,
                   lookups |-> 0]

\* the check goes on with the session ses, waiting for the reply of the
\* server to the command it has sent
CheckNext(ses) ==
    [session |-> [ses EXCEPT !.lookups = @ + 1], done |-> FALSE,
     rep |-> ZeroReply]

\* cb_check (&rep, ...) and rspamd_fuzzy_redis_session_dtor
CheckDone(ses, rep) == [session |-> NoRedisSession, done |-> TRUE, rep |-> rep]

\* rspamd_fuzzy_backend_check_redis: connected is FALSE when the pool returns
\* no connection, submitted is FALSE when the command cannot be queued
rspamd_fuzzy_backend_check_redis(cmd, connected, submitted) ==
    LET ses == [pc |-> "hmget", cmd |-> cmd, key |-> cmd.digest,
                prob |-> RSPAMD_SHINGLE_SIZE, shingles_checked |-> FALSE,
                lookups |-> 0]
    IN  IF connected /\ submitted THEN CheckNext(ses)
        ELSE CheckDone(ses, ZeroReply)

\* rspamd_fuzzy_backend_check_shingles
rspamd_fuzzy_backend_check_shingles(ses, submitted) ==
    LET s2 == [ses EXCEPT !.shingles_checked = TRUE]
    IN  IF submitted THEN CheckNext([s2 EXCEPT !.pc = "mget"])
        ELSE CheckDone(s2, ZeroReply)

\* rspamd_fuzzy_redis_check_callback that does not look at shingles_checked
check_callback_rechecks(db, ses, err, submitted) ==
    LET elements == redis_hmget(db, HashKey(ses.key))
        found_elts == Cardinality({i \in 1..2 : elements[i].type = "string"})
        rep == [value |-> IF elements[1].type = "string"
                          THEN strtoul(elements[1].str) ELSE 0,
                flag |-> IF elements[2].type = "string"
                         THEN strtoul(elements[2].str) ELSE 0,
                prob |-> IF found_elts = 2 THEN ses.prob ELSE 0]
    IN  IF ~err
        THEN IF found_elts /= 2 /\ ses.cmd.shingles /= NoShingles
             THEN rspamd_fuzzy_backend_check_shingles(ses, submitted)
             ELSE CheckDone(ses, rep)
        ELSE CheckDone(ses, ZeroReply)

\* rspamd_fuzzy_redis_check_callback for the reply of HMGET <key> V F; err is
\* c->err != 0
rspamd_fuzzy_redis_check_callback(db, ses, err, submitted) ==
    LET elements == redis_hmget(db, HashKey(ses.key))
        found_elts == Cardinality({i \in 1..2 : elements[i].type = "string"})
        rep == [value |-> IF elements[1].type = "string"
                          THEN strtoul(elements[1].str) ELSE 0,
                flag |-> IF elements[2].type = "string"
                         THEN strtoul(elements[2].str) ELSE 0,
                prob |-> IF found_elts = 2 THEN ses.prob ELSE 0]
    IN  IF ~err
        THEN IF found_elts /= 2 /\ ses.cmd.shingles /= NoShingles
                /\ ~ses.shingles_checked
             THEN rspamd_fuzzy_backend_check_shingles(ses, submitted)
             ELSE CheckDone(ses, rep)
        ELSE CheckDone(ses, ZeroReply)

\* the digest of a shingle that did not resolve (memset to 0)
ZeroDigest == "0"

\* rspamd_fuzzy_backend_redis_shingles_cmp: memcmp of the digests
digest_rank(d) == CASE d = ZeroDigest -> 0 [] d = "d1" -> 1 [] OTHER -> 2

shingles_cmp(a, b) == digest_rank(a.digest) < digest_rank(b.digest)

\* the loop of rspamd_fuzzy_redis_shingles_callback over the sorted shingles;
\* i, prev and sel are indices from 0, sel is -1 for NULL
RECURSIVE shingles_loop(_, _, _, _, _, _)
shingles_loop(shingles, i, prev, cur_found, max_found, sel) ==
    IF i >= RSPAMD_SHINGLE_SIZE THEN [max_found |-> max_found, sel |-> sel]
    ELSE IF shingles[i + 1].found = 0
         THEN shingles_loop(shingles, i + 1, prev, cur_found, max_found, sel)
         ELSE IF shingles[i + 1].digest = shingles[prev + 1].digest
              THEN IF cur_found + 1 > max_found
                   THEN shingles_loop(shingles, i + 1, prev, cur_found + 1,
                                      cur_found + 1, i)
                   ELSE shingles_loop(shingles, i + 1, prev, cur_found + 1,
                                      max_found, sel)
              ELSE shingles_loop(shingles, i + 1, i, 1, max_found, sel)

\* the array rspamd_fuzzy_redis_shingles_callback fills from the reply
shingles_of(elements) ==
    [i \in 1..RSPAMD_SHINGLE_SIZE |->
        IF elements[i].type = "string"
        THEN [digest |-> elements[i].str, found |-> 1]
        ELSE [digest |-> ZeroDigest, found |-> 0]]

\* rspamd_fuzzy_redis_shingles_callback for the reply of MGET
rspamd_fuzzy_redis_shingles_callback(db, ses, err, submitted) ==
    LET shingles == shingles_of(redis_mget(db, ses.cmd.shingles))
        found == Cardinality({i \in 1..RSPAMD_SHINGLE_SIZE :
                                 shingles[i].found = 1})
        sorted == SortSeq(shingles, shingles_cmp)
        r == shingles_loop(sorted, 1, 0, 0, 0, -1)
    IN  IF ~err
        THEN IF found > RSPAMD_SHINGLE_SIZE \div 2
                /\ r.max_found > RSPAMD_SHINGLE_SIZE \div 2
             THEN IF submitted
                  THEN CheckNext([ses EXCEPT !.pc = "hmget",
                                             !.key = sorted[r.sel + 1].digest,
                                             !.prob = r.max_found])
                  ELSE CheckDone([ses EXCEPT !.prob = r.max_found], ZeroReply)
             ELSE CheckDone(ses, ZeroReply)
        ELSE CheckDone(ses, ZeroReply)

\* the session and the reply after a step r of a check
check_step(r) ==
    /\ redis_session' = r.session
    /\ redis_reply' = IF r.done
                      THEN [sent |-> TRUE, value |-> r.rep.value,
                            flag |-> r.rep.flag, prob |-> r.rep.prob]
                      ELSE NoRedisReply

\* an update as it is queued: io_cmd->cmd and io_cmd->is_shingle
Update(c, digest, flag, value, k) ==
    [cmd |-> c, digest |-> digest, flag |-> flag, value |-> value,
     shingles |-> k]

\* the shingles of the text a digest is computed from
text_shingles(digest) == IF digest = "d1" THEN RSPAMD_SHINGLE_SIZE ELSE 0

\* the updates a client can send: with the shingles of its text or without
Updates ==
    UNION {{Update(FUZZY_WRITE, d, a[1], a[2], k) :
                a \in UpdateArgs, k \in {NoShingles, text_shingles(d)}}
           \cup {Update(FUZZY_DEL, d, 1, 3, k) :
                    k \in {NoShingles, text_shingles(d)}} : d \in Digests}

\* an update is appended to the queue the next update call is given
RedisQueueUpdate ==
    /\ nredis < MaxRedisOps
    /\ Len(redis_queue) < MaxBatch
    /\ \E u \in Updates : redis_queue' = Append(redis_queue, u)
    /\ nredis' = nredis + 1
    /\ UNCHANGED <<redis, redis_session, redis_reply, redis_update>>
    /\ UNCHANGED <<taskvars, cfgvars, libvars, fuzzyvars, poolvars>>

\* how many commands of a transaction the connection accepts before one is
\* refused: none (MULTI is refused), MULTI alone, all but INCR of the source
\* and EXEC, all but EXEC, or all of them
QueuedCommands(tx) == {0, 1, Len(tx) - 2, Len(tx) - 1, Len(tx)}

\* rspamd_fuzzy_backend_update_redis for the queued updates
RedisUpdate ==
    /\ nredis < MaxRedisOps
    /\ \E st \in {"null", "fail", "err", "lost", "ok"},
          queued \in QueuedCommands(update_transaction(redis_queue, UpdateSrc)) :
          /\ st = "null" => queued = 0
          /\ st = "fail" <=> (st /= "null"
                              /\ queued < Len(update_transaction(redis_queue,
                                                                UpdateSrc)))
          /\ rspamd_fuzzy_backend_update_redis(redis_queue, UpdateSrc, st,
                                               queued)
    /\ redis_queue' = <<>>
    /\ nredis' = nredis + 1
    /\ UNCHANGED <<redis_session, redis_reply>>
    /\ UNCHANGED <<taskvars, cfgvars, libvars, fuzzyvars, poolvars>>

\* rspamd_fuzzy_backend_check_redis for a Check command
RedisCheck ==
    /\ nredis < MaxRedisOps
    /\ redis_session.pc = "idle"
    /\ \E digest \in CheckDigests, k \in CheckShingles, connected \in BOOLEAN,
          submitted \in BOOLEAN :
          check_step(rspamd_fuzzy_backend_check_redis(
              [digest |-> digest, shingles |-> k], connected, submitted))
    /\ nredis' = nredis + 1
    /\ UNCHANGED <<redis, redis_queue, redis_update>>
    /\ UNCHANGED <<taskvars, cfgvars, libvars, fuzzyvars, poolvars>>

\* the reply of HMGET arrives
RedisCheckCallback ==
    /\ redis_session.pc = "hmget"
    /\ \E err \in BOOLEAN, submitted \in BOOLEAN :
          check_step(rspamd_fuzzy_redis_check_callback(redis, redis_session,
                                                       err, submitted))
    /\ UNCHANGED <<redis, redis_queue, redis_update, nredis>>
    /\ UNCHANGED <<taskvars, cfgvars, libvars, fuzzyvars, poolvars>>

\* the reply of MGET arrives
RedisShinglesCallback ==
    /\ redis_session.pc = "mget"
    /\ \E err \in BOOLEAN, submitted \in BOOLEAN :
          check_step(rspamd_fuzzy_redis_shingles_callback(redis, redis_session,
                                                          err, submitted))
    /\ UNCHANGED <<redis, redis_queue, redis_update, nredis>>
    /\ UNCHANGED <<taskvars, cfgvars, libvars, fuzzyvars, poolvars>>

\* the keys that expire together: the key of a digest, or the shingle keys
\* written with one hash
ExpiringKeys ==
    {{HashKey(d)} : d \in Digests}
    \cup {{ShingleKey(i, h) : i \in 0..(RSPAMD_SHINGLE_SIZE - 1)} :
             h \in ShingleHashes}

\* the server drops keys whose time to live, set by EXPIRE and SETEX, is over
RedisExpire ==
    /\ nredis < MaxRedisOps
    /\ \E keys \in ExpiringKeys :
          /\ keys \cap DOMAIN redis /= {}
          /\ redis' = [k \in DOMAIN redis \ keys |-> redis[k]]
    /\ nredis' = nredis + 1
    /\ UNCHANGED <<redis_session, redis_reply, redis_queue, redis_update>>
    /\ UNCHANGED <<taskvars, cfgvars, libvars, fuzzyvars, poolvars>>

RedisInit ==
    /\ redis = EmptyDb
    /\ redis_session = NoRedisSession
    /\ redis_reply = NoRedisReply
    /\ redis_queue = <<>>
    /\ redis_update = NoUpdate
    /\ nredis = 0

(* -------------------- pool of redis connections ----------------------- *)
\* default_timeout, the timeout of the pool in seconds
default_timeout == 10

\* a connection and its redisAsyncContext carry the same number; 0 is NULL
ConnIds == 1..MaxConns
NullCtx == 0

\* the keys (db, password, ip, port) connections are asked for: k1 has neither
\* db nor password, k2 has a db
PoolKeys == {"k1", "k2"}
key_has_db(key) == key = "k2"

\* entry is conn->entry != NULL, err is ctx->err != REDIS_OK, replies is
\* ctx->replies.head != NULL, timer is the interval the cleanup timer was
\* armed with before the jitter (0 when it is not armed)
NoConn == [live |-> FALSE, key |-> NULL, active |-> FALSE, err |-> FALSE,
           replies |-> FALSE, timer |-> 0, refcount |-> 0, entry |-> FALSE]

\* g_queue_unlink
queue_unlink(q, c) == SelectSeq(q, LAMBDA x : x /= c)

\* rspamd_redis_pool_conn_dtor; freeing is REDIS_FREEING in the flags of the
\* context. The active branch clears conn->ctx before it removes conn->ctx
\* from elts_by_ctx
rspamd_redis_pool_conn_dtor(p, c, freeing) ==
    LET conn == p.conns[c]
    IN  IF conn.active
        THEN [p EXCEPT !.conns[c] = NoConn,
                       !.elts_by_ctx = IF ~freeing THEN @ \ {NullCtx} ELSE @,
                       !.active[conn.key] =
                           IF conn.entry THEN queue_unlink(@, c) ELSE @]
        ELSE [p EXCEPT !.conns[c] = NoConn,
                       !.elts_by_ctx = IF ~freeing THEN @ \ {c} ELSE @,
                       !.inactive[conn.key] =
                           IF conn.entry THEN queue_unlink(@, c) ELSE @]

\* REF_RELEASE (conn); a reference dropped on a connection that was freed
\* is recorded in assert_failed
REF_RELEASE(p, c, freeing) ==
    IF ~p.conns[c].live THEN [p EXCEPT !.assert_failed = TRUE]
    ELSE IF p.conns[c].refcount = 1
         THEN rspamd_redis_pool_conn_dtor(p, c, freeing)
         ELSE [p EXCEPT !.conns[c].refcount = @ - 1]

\* REF_RETAIN (conn)
REF_RETAIN(p, c) == [p EXCEPT !.conns[c].refcount = @ + 1]

\* rspamd_redis_pool_schedule_timeout
schedule_timeout_inactive(p, c) ==
    LET elts == Len(p.inactive[p.conns[c].key])
    IN  [p EXCEPT !.conns[c].timer =
            IF elts > max_conns THEN default_timeout \div 2
            ELSE default_timeout]

rspamd_redis_pool_schedule_timeout(p, c) ==
    LET active_elts == Len(p.active[p.conns[c].key])
    IN  [p EXCEPT !.conns[c].timer =
            IF active_elts > max_conns THEN default_timeout \div 2
            ELSE default_timeout]

\* rspamd_redis_pool_new_connection: fresh is the context redisAsyncConnect
\* returns, ok is FALSE when it returns NULL or a context with an error
rspamd_redis_pool_new_connection(p, key, fresh, ok) ==
    IF ok /\ ~p.conns[fresh].live
    THEN [pool |-> [p EXCEPT
                      !.conns[fresh] =
                          [live |-> TRUE, key |-> key, active |-> TRUE,
                           err |-> FALSE, replies |-> key_has_db(key),
                           timer |-> 0, refcount |-> 1, entry |-> TRUE],
                      !.elts_by_ctx = @ \cup {fresh},
                      !.active[key] = <<fresh>> \o @],
          conn |-> fresh]
    ELSE [pool |-> p, conn |-> NullCtx]

\* rspamd_redis_pool_connect: the pool afterwards and the context returned
connect_always_new(p, key, fresh, ok) ==
    LET r == rspamd_redis_pool_new_connection(
                 [p EXCEPT !.elts_by_key = @ \cup {key}], key, fresh, ok)
    IN  IF r.conn = NullCtx THEN [pool |-> r.pool, ret |-> NullCtx]
        ELSE [pool |-> REF_RETAIN(r.pool, r.conn), ret |-> r.conn]

rspamd_redis_pool_connect(p, key, fresh, ok) ==
    LET r == IF key \in p.elts_by_key /\ Len(p.inactive[key]) > 0
             THEN LET c == Head(p.inactive[key])
                      popped == [p EXCEPT !.inactive[key] = Tail(@)]
                  IN  IF ~p.conns[c].err
                      THEN [pool |-> [popped EXCEPT
                                        !.conns[c].timer = 0,
                                        !.conns[c].active = TRUE,
                                        !.active[key] = Append(@, c)],
                            conn |-> c]
                      ELSE rspamd_redis_pool_new_connection(
                               REF_RELEASE([popped EXCEPT
                                               !.conns[c].entry = FALSE],
                                           c, FALSE),
                               key, fresh, ok)
             ELSE rspamd_redis_pool_new_connection(
                      [p EXCEPT !.elts_by_key = @ \cup {key}], key, fresh, ok)
    IN  IF r.conn = NullCtx THEN [pool |-> r.pool, ret |-> NullCtx]
        ELSE [pool |-> REF_RETAIN(r.pool, r.conn), ret |-> r.conn]

\* rspamd_redis_pool_release_connection
release_keep_all(p, c, is_fatal) ==
    LET conn == p.conns[c]
    IN  REF_RELEASE(
            rspamd_redis_pool_schedule_timeout(
                [p EXCEPT !.active[conn.key] = queue_unlink(@, c),
                          !.inactive[conn.key] = <<c>> \o @,
                          !.conns[c].active = FALSE], c),
            c, FALSE)

release_keeps_queue(p, c, is_fatal) ==
    LET conn == p.conns[c]
    IN  IF is_fatal \/ conn.err
        THEN REF_RELEASE(REF_RELEASE(p, c, FALSE), c, FALSE)
        ELSE IF ~conn.replies
             THEN REF_RELEASE(
                      rspamd_redis_pool_schedule_timeout(
                          [p EXCEPT !.conns[c].active = FALSE], c),
                      c, FALSE)
             ELSE REF_RELEASE(REF_RELEASE(p, c, FALSE), c, FALSE)

rspamd_redis_pool_release_connection(p, c, is_fatal) ==
    LET conn == p.conns[c]
    IN  IF c \notin p.elts_by_ctx \/ ~conn.live \/ ~conn.active
        THEN [p EXCEPT !.assert_failed = TRUE]
        ELSE IF is_fatal \/ conn.err
        THEN REF_RELEASE(REF_RELEASE(p, c, FALSE), c, FALSE)
        ELSE IF ~conn.replies
             THEN REF_RELEASE(
                      rspamd_redis_pool_schedule_timeout(
                          [p EXCEPT !.active[conn.key] = queue_unlink(@, c),
                                    !.inactive[conn.key] = <<c>> \o @,
                                    !.conns[c].active = FALSE], c),
                      c, FALSE)
             ELSE REF_RELEASE(REF_RELEASE(p, c, FALSE), c, FALSE)

\* a caller asks for a connection; a new context is not one of a connection
\* that is live when the call is made
PoolConnect ==
    /\ npool < MaxPoolOps
    /\ \E key \in PoolKeys, fresh \in ConnIds, ok \in BOOLEAN :
          LET r == rspamd_redis_pool_connect(pool, key, fresh, ok)
          IN  /\ ok => ~pool.conns[fresh].live
              /\ pool' = r.pool
              /\ pool_ret' = r.ret
              /\ pool_held' = IF r.ret = NullCtx THEN pool_held
                              ELSE pool_held \cup {r.ret}
    /\ npool' = npool + 1
    /\ UNCHANGED <<taskvars, cfgvars, libvars, fuzzyvars, redisvars>>

\* the holder of a connection gives it back
PoolRelease ==
    /\ npool < MaxPoolOps
    /\ \E c \in pool_held, is_fatal \in BOOLEAN :
          /\ pool' = rspamd_redis_pool_release_connection(pool, c, is_fatal)
          /\ pool_held' = pool_held \ {c}
    /\ npool' = npool + 1
    /\ UNCHANGED <<pool_ret, taskvars, cfgvars, libvars, fuzzyvars, redisvars>>

\* an input or output error is recorded in the context of a connection
PoolError ==
    /\ npool < MaxPoolOps
    /\ \E c \in ConnIds :
          /\ pool.conns[c].live /\ ~pool.conns[c].err
          /\ pool' = [pool EXCEPT !.conns[c].err = TRUE]
    /\ npool' = npool + 1
    /\ UNCHANGED <<pool_ret, pool_held, taskvars, cfgvars, libvars, fuzzyvars, redisvars>>

\* the holder of a connection queues a command with a reply callback
PoolCommand ==
    /\ npool < MaxPoolOps
    /\ \E c \in pool_held :
          /\ ~pool.conns[c].err /\ ~pool.conns[c].replies
          /\ pool' = [pool EXCEPT !.conns[c].replies = TRUE]
    /\ npool' = npool + 1
    /\ UNCHANGED <<pool_ret, pool_held, taskvars, cfgvars, libvars, fuzzyvars, redisvars>>

\* the replies of the commands queued on a connection arrive
PoolReply ==
    /\ npool < MaxPoolOps
    /\ \E c \in ConnIds :
          /\ pool.conns[c].live /\ pool.conns[c].replies
          /\ pool' = [pool EXCEPT !.conns[c].replies = FALSE]
    /\ npool' = npool + 1
    /\ UNCHANGED <<pool_ret, pool_held, taskvars, cfgvars, libvars, fuzzyvars, redisvars>>

\* rspamd_redis_conn_timeout
rspamd_redis_conn_timeout(p, c) ==
    IF p.conns[c].active THEN [p EXCEPT !.assert_failed = TRUE]
    ELSE REF_RELEASE(p, c, FALSE)

\* the cleanup timer of a connection fires
PoolTimeout ==
    /\ npool < MaxPoolOps
    /\ \E c \in ConnIds :
          /\ pool.conns[c].live /\ pool.conns[c].timer /= 0
          /\ pool' = rspamd_redis_conn_timeout(pool, c)
    /\ npool' = npool + 1
    /\ UNCHANGED <<pool_ret, pool_held, taskvars, cfgvars, libvars, fuzzyvars, redisvars>>

\* rspamd_redis_pool_on_disconnect for an idle connection the server closed
PoolDisconnect ==
    /\ npool < MaxPoolOps
    /\ \E c \in ConnIds, freeing \in BOOLEAN :
          /\ pool.conns[c].live /\ ~pool.conns[c].active
          /\ pool' = REF_RELEASE(pool, c, freeing)
    /\ npool' = npool + 1
    /\ UNCHANGED <<pool_ret, pool_held, taskvars, cfgvars, libvars, fuzzyvars, redisvars>>

\* rspamd_redis_pool_init
PoolInit ==
    /\ pool = [conns |-> [c \in ConnIds |-> NoConn],
               active |-> [k \in PoolKeys |-> <<>>],
               inactive |-> [k \in PoolKeys |-> <<>>],
               elts_by_key |-> {},
               elts_by_ctx |-> {},
               assert_failed |-> FALSE]
    /\ pool_ret = NullCtx
    /\ pool_held = {}
    /\ npool = 0

(* ------------------ requests of the redis backend --------------------- *)
\* requests started on the redis backend
MaxReqs == 3

\* session->command: every request starts a session of its own
ReqKinds == {"COUNT", "VERSION", "UPDATES", "CHECK"}

\* ctx is session->ctx, timer is TRUE while session->timeout is pending, stage
\* counts the commands of a check answered so far, cb_calls the calls of
\* session->callback, releases the calls of
\* rspamd_redis_pool_release_connection for the connection of the session, res
\* what the callback was given
NoReq == [pc |-> "idle", kind |-> "CHECK", ctx |-> NullCtx, timer |-> FALSE,
          stage |-> 0, cb_calls |-> 0, releases |-> 0, res |-> "none"]

\* session->callback.cb_* (...): res is "ok" for the result of a reply and
\* "fail" for the zero reply, the count 0, the version 0 or FALSE
session_callback(r, res) ==
    [r EXCEPT !.ses.cb_calls = @ + 1, !.ses.res = res]

\* rspamd_fuzzy_redis_session_dtor on r = [pool, ses]
session_dtor_always_release(r, is_fatal) ==
    [pool |-> IF r.ses.ctx /= NullCtx
              THEN rspamd_redis_pool_release_connection(r.pool, r.ses.ctx, is_fatal)
              ELSE r.pool,
     ses |-> [r.ses EXCEPT !.releases = @ + 1,
                           !.ctx = NullCtx, !.timer = FALSE, !.pc = "done"]]

rspamd_fuzzy_redis_session_dtor(r, is_fatal) ==
    IF r.ses.ctx /= NullCtx
    THEN [pool |-> rspamd_redis_pool_release_connection(r.pool, r.ses.ctx,
                                                        is_fatal),
          ses |-> [r.ses EXCEPT !.ctx = NullCtx, !.releases = @ + 1,
                                !.timer = FALSE, !.pc = "done"]]
    ELSE [r EXCEPT !.ses.timer = FALSE, !.ses.pc = "done"]

\* rspamd_fuzzy_backend_{check,count,version,update}_redis: the pool and the
\* session after the call. fresh and ok are the outcome of redisAsyncConnect
\* when the pool opens a connection, submitted is FALSE when a
\* redisAsyncCommandArgv of the request does not return REDIS_OK
rspamd_fuzzy_backend_request_redis(p, kind, fresh, ok, submitted) ==
    LET c == rspamd_redis_pool_connect(p, "k1", fresh, ok)
        r == [pool |-> c.pool,
              ses |-> [NoReq EXCEPT !.pc = "wait", !.kind = kind, !.ctx = c.ret]]
    IN  IF c.ret = NullCtx
        THEN session_callback(rspamd_fuzzy_redis_session_dtor(r, TRUE), "fail")
        ELSE IF ~submitted
             THEN session_callback(rspamd_fuzzy_redis_session_dtor(r, TRUE),
                                   "fail")
             ELSE [r EXCEPT !.ses.timer = TRUE]

\* rspamd_fuzzy_redis_{check,shingles,count,version,update}_callback; err is
\* c->err != 0, more is TRUE when the reply makes a check go on with a further
\* command (the shingles after the digest was not found, the digest the
\* shingles select), submitted is the outcome of queueing that command
rspamd_fuzzy_redis_callback(r, err, more, submitted) ==
    LET r0 == [r EXCEPT !.ses.timer = FALSE]
    IN  IF ~err
        THEN IF more /\ r.ses.kind = "CHECK" /\ r.ses.stage < 2
             THEN IF submitted
                  THEN [r0 EXCEPT !.ses.timer = TRUE, !.ses.stage = @ + 1]
                  ELSE rspamd_fuzzy_redis_session_dtor(
                           session_callback(r0, "fail"), TRUE)
             ELSE rspamd_fuzzy_redis_session_dtor(session_callback(r0, "ok"),
                                                  FALSE)
        ELSE rspamd_fuzzy_redis_session_dtor(session_callback(r0, "fail"),
                                             FALSE)

\* rspamd_fuzzy_redis_timeout. The forced release drops the last references
\* of the connection, rspamd_redis_pool_conn_dtor calls redisAsyncFree, and
\* redisAsyncFree runs the callback of the pending command with a NULL reply
\* and the error the handler has set
rspamd_fuzzy_redis_timeout(r) ==
    IF r.ses.ctx /= NullCtx
    THEN LET ac == r.ses.ctx
             p1 == rspamd_redis_pool_release_connection(
                       [r.pool EXCEPT !.conns[ac].err = TRUE], ac, TRUE)
             r1 == [pool |-> p1,
                    ses |-> [r.ses EXCEPT !.ctx = NullCtx, !.releases = @ + 1,
                                          !.timer = FALSE]]
         IN  IF ~p1.conns[ac].live
             THEN rspamd_fuzzy_redis_callback(r1, TRUE, FALSE, FALSE)
             ELSE r1
    ELSE [r EXCEPT !.ses.timer = FALSE]

\* the pool and the session after a step
req_step(r) ==
    /\ pool' = r.pool
    /\ req' = r.ses
    /\ UNCHANGED <<pool_ret, pool_held, npool>>
    /\ UNCHANGED <<taskvars, cfgvars, fuzzyvars, redisvars, luavars, statvars,
                   cachevars, upvars>>

\* a caller starts a request
ReqStart ==
    /\ nreq < MaxReqs
    /\ req.pc \in {"idle", "done"}
    /\ \E kind \in ReqKinds, fresh \in ConnIds, ok \in BOOLEAN,
          submitted \in BOOLEAN :
          /\ ok => ~pool.conns[fresh].live
          /\ req_step(rspamd_fuzzy_backend_request_redis(pool, kind, fresh, ok,
                                                         submitted))
    /\ nreq' = nreq + 1

\* the reply of the pending command arrives, or the connection fails
ReqReply ==
    /\ req.pc = "wait"
    /\ \E err \in BOOLEAN, more \in BOOLEAN, submitted \in BOOLEAN :
          req_step(rspamd_fuzzy_redis_callback(
              [pool |-> [pool EXCEPT !.conns[req.ctx].err = err], ses |-> req],
              err, more, submitted))
    /\ UNCHANGED nreq

\* session->timeout fires
ReqTimeout ==
    /\ req.pc = "wait" /\ req.timer
    /\ req_step(rspamd_fuzzy_redis_timeout([pool |-> pool, ses |-> req]))
    /\ UNCHANGED nreq

ReqInit ==
    /\ req = NoReq
    /\ nreq = 0

(* ------------------- redis client of the scripts --------------------- *)
\* commands a script queues on one context
MaxLuaCmds == 2
\* calls of a script that open a context
MaxLuaOps == 2
\* requests of the redis backend beside the scripts
MaxLuaReqs == 1
\* timers and disconnects of idle connections beside the scripts
MaxLuaIdle == 1

\* a struct lua_redis_specific_userdata: cbref is cbref != -1, replied and
\* finished are LUA_REDIS_SPECIFIC_REPLIED and LUA_REDIS_SPECIFIC_FINISHED,
\* timer is TRUE while sp_ud->timeout is pending, event while lua_redis_fin
\* is registered in the session, queued while lua_redis_callback waits in the
\* connection for the reply. calls counts the calls of the script's callback,
\* result is what it was given, fin_calls counts the calls of lua_redis_fin,
\* late is set by a call of the callback after lua_redis_fin or after the
\* context was marked terminated
NoCmd == [used |-> FALSE, cbref |-> FALSE, replied |-> FALSE,
          finished |-> FALSE, timer |-> FALSE, event |-> FALSE,
          queued |-> FALSE, calls |-> 0, result |-> "none", fin_calls |-> 0,
          late |-> FALSE]

\* a struct lua_redis_ctx with its lua_redis_userdata: ctx is ud->ctx, s is
\* ud->s != NULL, session is TRUE while that session exists, udata while the
\* userdata of the script refers to the context. dtor records the release of
\* lua_redis_dtor, releases counts the releases of the connection since it
\* was taken, uaf is set by a handler that runs on a freed context
NoDtor == [called |-> FALSE, released |-> FALSE, unanswered |-> FALSE,
           closed |-> FALSE]

NoLuaCtx == [alive |-> FALSE, refcount |-> 0, ctx |-> NullCtx, s |-> FALSE,
             session |-> FALSE, udata |-> FALSE, terminated |-> FALSE,
             cmds_pending |-> 0,
             specific |-> [i \in 1..MaxLuaCmds |-> NoCmd],
             dtor |-> NoDtor, releases |-> 0, uaf |-> FALSE]

\* ctx->replies.head != NULL of the connection ac after a change of the
\* commands that wait
lua_replies(r, ac) ==
    IF ac = NullCtx \/ ~r.pool.conns[ac].live THEN r
    ELSE [r EXCEPT !.pool.conns[ac].replies =
             \E i \in 1..MaxLuaCmds : r.lua.specific[i].queued]

\* lua_redis_dtor on r = [pool, lua]. When the release closes the connection,
\* redisAsyncFree runs the callbacks that wait; lua_redis_callback returns at
\* once for each of them, ud->terminated being set
lua_redis_dtor(r) ==
    LET l == r.lua
        unanswered == \E i \in 1..MaxLuaCmds :
                         l.specific[i].used /\ ~l.specific[i].replied
        is_successful == ~unanswered
        ac == l.ctx
        p1 == rspamd_redis_pool_release_connection(r.pool, ac, is_successful)
    IN  IF ac /= NullCtx
        THEN [pool |-> p1,
              lua |-> [l EXCEPT
                  !.specific = [i \in 1..MaxLuaCmds |->
                      IF l.specific[i].used
                      THEN [l.specific[i] EXCEPT
                              !.timer = FALSE, !.finished = TRUE,
                              !.queued = IF p1.conns[ac].live THEN @
                                         ELSE FALSE]
                      ELSE l.specific[i]],
                  !.terminated = TRUE,
                  !.ctx = NullCtx,
                  !.releases = @ + 1,
                  !.dtor = [called |-> TRUE, released |-> TRUE,
                            unanswered |-> unanswered,
                            closed |-> ~p1.conns[ac].live],
                  !.alive = FALSE, !.refcount = 0]]
        ELSE [r EXCEPT !.lua.alive = FALSE, !.lua.refcount = 0,
                       !.lua.dtor = [NoDtor EXCEPT !.called = TRUE]]

\* REDIS_RETAIN (ctx) and REDIS_RELEASE (ctx)
REDIS_RETAIN(r) ==
    IF ~r.lua.alive THEN [r EXCEPT !.lua.uaf = TRUE]
    ELSE [r EXCEPT !.lua.refcount = @ + 1]

REDIS_RELEASE(r) ==
    IF ~r.lua.alive THEN [r EXCEPT !.lua.uaf = TRUE]
    ELSE IF r.lua.refcount = 1 THEN lua_redis_dtor(r)
    ELSE [r EXCEPT !.lua.refcount = @ - 1]

\* lua_redis_fin for command i
lua_redis_fin_unmarked(r, i) ==
    REDIS_RELEASE([r EXCEPT !.lua.specific[i].event = FALSE,
                            !.lua.specific[i].fin_calls = @ + 1])

lua_redis_fin(r, i) ==
    REDIS_RELEASE([r EXCEPT !.lua.specific[i].timer = FALSE,
                            !.lua.specific[i].finished = TRUE,
                            !.lua.specific[i].event = FALSE,
                            !.lua.specific[i].fin_calls = @ + 1])

\* lua_redis_push_error and lua_redis_push_data for command i: res is what
\* the callback of the script is given. rspamd_session_remove_event calls
\* lua_redis_fin
lua_redis_push(r, i, res) ==
    LET sp == r.lua.specific[i]
    IN  IF ~(sp.replied \/ sp.finished)
        THEN lua_redis_fin(
                 [r EXCEPT !.lua.specific[i] =
                     [sp EXCEPT
                        !.calls = IF sp.cbref THEN @ + 1 ELSE @,
                        !.result = IF sp.cbref THEN res ELSE @,
                        !.late = @ \/ (sp.cbref /\ (sp.fin_calls > 0
                                                    \/ r.lua.terminated)),
                        !.replied = TRUE]],
                 i)
        ELSE r

lua_redis_push_error(r, i, err) == lua_redis_push(r, i, err)

lua_redis_push_data(r, i) == lua_redis_push(r, i, "data")

\* lua_redis_callback for command i, taken from the commands that wait;
\* rtype is "data", "error" (REDIS_REPLY_ERROR) or NULL, err is c->err != 0
lua_redis_callback(r, i, rtype, err) ==
    IF ~r.lua.alive THEN [r EXCEPT !.lua.uaf = TRUE]
    ELSE IF r.lua.terminated THEN r
    ELSE LET r1 == REDIS_RETAIN(r)
             r2 == IF ~r1.lua.specific[i].finished
                   THEN IF ~err
                        THEN IF rtype = "data"
                             THEN lua_redis_push_data(r1, i)
                             ELSE IF rtype = "error"
                             THEN lua_redis_push_error(r1, i, "error")
                             ELSE lua_redis_push_error(r1, i, "no data")
                        ELSE lua_redis_push_error(r1, i, "io error")
                   ELSE r1
             r3 == [r2 EXCEPT !.lua.cmds_pending = @ - 1]
             ac == r3.lua.ctx
             r4 == IF r3.lua.cmds_pending = 0 /\ ~r3.lua.terminated
                   THEN [pool |-> IF ac /= NullCtx
                                  THEN rspamd_redis_pool_release_connection(
                                           r3.pool, ac, FALSE)
                                  ELSE r3.pool,
                         lua |-> [r3.lua EXCEPT
                                    !.terminated = TRUE,
                                    !.ctx = NullCtx,
                                    !.releases = IF ac /= NullCtx THEN @ + 1
                                                 ELSE @]]
                   ELSE r3
         IN  REDIS_RELEASE(r4)

\* redisAsyncFree and a disconnect of the connection ac: the callbacks of
\* the commands that wait are run in the order of the commands, with a NULL
\* reply
RECURSIVE lua_flush(_, _, _, _)
lua_flush(r, ac, err, i) ==
    IF i > MaxLuaCmds THEN r
    ELSE IF r.lua.specific[i].queued
    THEN lua_flush(
             lua_redis_callback(
                 lua_replies([r EXCEPT !.lua.specific[i].queued = FALSE], ac),
                 i, NULL, err),
             ac, err, i + 1)
    ELSE lua_flush(r, ac, err, i + 1)

\* lua_redis_timeout for command i
lua_redis_timeout_keeps_ctx(r, i) ==
    LET r0 == [r EXCEPT !.lua.specific[i].timer = FALSE]
    IN  IF r0.lua.specific[i].finished THEN r0
        ELSE LET r1 == REDIS_RETAIN(r0)
                 r2 == lua_redis_push_error(r1, i, "timeout")
                 ac == r2.lua.ctx
                 p3 == rspamd_redis_pool_release_connection(
                           [r2.pool EXCEPT !.conns[ac].err = TRUE], ac, TRUE)
                 r3 == [pool |-> p3,
                        lua |-> [r2.lua EXCEPT !.releases = @ + 1]]
             IN  IF ac /= NullCtx
                 THEN REDIS_RELEASE(
                          IF ~p3.conns[ac].live
                          THEN lua_flush(r3, ac, TRUE, 1)
                          ELSE r3)
                 ELSE REDIS_RELEASE(r2)

lua_redis_timeout(r, i) ==
    LET r0 == [r EXCEPT !.lua.specific[i].timer = FALSE]
    IN  IF r0.lua.specific[i].finished THEN r0
        ELSE LET r1 == REDIS_RETAIN(r0)
                 r2 == lua_redis_push_error(r1, i, "timeout")
                 ac == r2.lua.ctx
                 p3 == rspamd_redis_pool_release_connection(
                           [r2.pool EXCEPT !.conns[ac].err = TRUE], ac, TRUE)
                 r3 == [pool |-> p3,
                        lua |-> [r2.lua EXCEPT !.ctx = NullCtx,
                                               !.releases = @ + 1]]
             IN  IF ac /= NullCtx
                 THEN REDIS_RELEASE(
                          IF ~p3.conns[ac].live
                          THEN lua_flush(r3, ac, TRUE, 1)
                          ELSE r3)
                 ELSE REDIS_RELEASE(r2)

\* the command a script queues in slot i of ud->specific: submitted is
\* redisAsyncCommandArgv (...) == REDIS_OK
lua_redis_queue(r, i, cbref, submitted) ==
    LET sp == [NoCmd EXCEPT !.used = TRUE, !.cbref = cbref]
    IN  IF submitted
        THEN lua_replies(
                 [r EXCEPT !.lua.specific[i] =
                               [sp EXCEPT !.event = r.lua.s, !.timer = TRUE,
                                          !.queued = TRUE],
                           !.lua.refcount = @ + 1,
                           !.lua.cmds_pending = @ + 1],
                 r.lua.ctx)
        ELSE [r EXCEPT !.lua.specific[i] = sp]

\* rspamd_lua_redis_prepare_connection: the pool and the context afterwards
rspamd_lua_redis_prepare_connection(p, has_s, fresh, ok) ==
    LET c == rspamd_redis_pool_connect(p, "k1", fresh, ok)
        r == [pool |-> c.pool,
              lua |-> [NoLuaCtx EXCEPT !.alive = TRUE, !.refcount = 1,
                                       !.s = has_s, !.session = has_s,
                                       !.ctx = c.ret]]
    IN  IF c.ret = NullCtx THEN REDIS_RELEASE(r) ELSE r

\* lua_redis_connect
lua_redis_connect(p, has_s, fresh, ok) ==
    LET r == rspamd_lua_redis_prepare_connection(p, has_s, fresh, ok)
    IN  [r EXCEPT !.lua.udata = r.lua.alive]

\* lua_redis_make_request
lua_redis_make_request(p, has_s, fresh, ok, cbref, submitted) ==
    LET r == rspamd_lua_redis_prepare_connection(p, has_s, fresh, ok)
        q == lua_redis_queue(r, 1, cbref, submitted)
    IN  IF ~r.lua.alive THEN r
        ELSE IF submitted THEN [q EXCEPT !.lua.udata = TRUE]
        ELSE REDIS_RELEASE(
                 [pool |-> rspamd_redis_pool_release_connection(
                               q.pool, q.lua.ctx, TRUE),
                  lua |-> [q.lua EXCEPT !.ctx = NullCtx,
                                        !.releases = @ + 1]])

\* lua_redis_add_cmd on a context that holds its connection
lua_redis_add_cmd(r, cbref, submitted) ==
    LET free == {i \in 1..MaxLuaCmds : ~r.lua.specific[i].used}
        i == CHOOSE j \in free : \A k \in free : j <= k
    IN  lua_redis_queue(r, i, cbref, submitted)

\* rspamd_session_destroy: lua_redis_fin is called for the events of the
\* session that are left
RECURSIVE session_destroy(_, _)
session_destroy(r, i) ==
    IF i > MaxLuaCmds THEN [r EXCEPT !.lua.session = FALSE]
    ELSE IF r.lua.specific[i].event
    THEN session_destroy(lua_redis_fin(r, i), i + 1)
    ELSE session_destroy(r, i + 1)

\* the pool and the context after a step
lua_step(r) ==
    /\ pool' = r.pool
    /\ lua_ctx' = r.lua
    /\ UNCHANGED <<pool_ret, pool_held, npool>>
    /\ UNCHANGED <<taskvars, cfgvars, fuzzyvars, redisvars, reqvars, statvars,
                   cachevars, upvars>>

\* the context redisAsyncConnect returns to a script: the first that is not
\* the context of a live connection
lua_fresh(p) ==
    {c \in ConnIds : /\ ~p.conns[c].live
                     /\ \A d \in 1..(c - 1) : p.conns[d].live}

\* a script calls rspamd_redis.connect
LuaConnect ==
    /\ nlua < MaxLuaOps
    /\ ~lua_ctx.alive
    /\ \E has_s \in BOOLEAN, fresh \in lua_fresh(pool), ok \in BOOLEAN :
          /\ lua_step(lua_redis_connect(pool, has_s, fresh, ok))
    /\ nlua' = nlua + 1

\* a script calls rspamd_redis.make_request
LuaMakeRequest ==
    /\ nlua < MaxLuaOps
    /\ ~lua_ctx.alive
    /\ \E has_s \in BOOLEAN, fresh \in lua_fresh(pool), ok \in BOOLEAN,
          cbref \in BOOLEAN, submitted \in BOOLEAN :
          /\ lua_step(lua_redis_make_request(pool, has_s, fresh, ok, cbref,
                                             submitted))
    /\ nlua' = nlua + 1

\* a script calls add_cmd on the context it holds
LuaAddCmd ==
    /\ lua_ctx.alive /\ lua_ctx.udata /\ lua_ctx.ctx /= NullCtx
    /\ lua_ctx.s => lua_ctx.session
    /\ \E i \in 1..MaxLuaCmds : ~lua_ctx.specific[i].used
    /\ \E cbref \in BOOLEAN, submitted \in BOOLEAN :
          lua_step(lua_redis_add_cmd([pool |-> pool, lua |-> lua_ctx], cbref,
                                     submitted))
    /\ UNCHANGED nlua

\* lua_redis_gc: the userdata of the script is collected
LuaGc ==
    /\ lua_ctx.alive /\ lua_ctx.udata
    /\ lua_step(REDIS_RELEASE([pool |-> pool,
                               lua |-> [lua_ctx EXCEPT !.udata = FALSE]]))
    /\ UNCHANGED nlua

\* the reply of the first command that waits arrives
LuaReply ==
    /\ \E i \in 1..MaxLuaCmds, rtype \in {"data", "error"} :
          /\ lua_ctx.specific[i].queued
          /\ \A j \in 1..(i - 1) : ~lua_ctx.specific[j].queued
          /\ LET ac == lua_ctx.ctx
                 r == lua_redis_callback(
                          lua_replies(
                              [pool |-> pool,
                               lua |-> [lua_ctx EXCEPT
                                          !.specific[i].queued = FALSE]], ac),
                          i, rtype, FALSE)
             IN  lua_step(IF ac /= NullCtx /\ ~r.pool.conns[ac].live
                          THEN lua_flush(r, ac, FALSE, 1)
                          ELSE r)
    /\ UNCHANGED nlua

\* the connection of the context fails: the callbacks of the commands that
\* wait are run with a NULL reply and the error of the connection
LuaDisconnect ==
    /\ \E i \in 1..MaxLuaCmds : lua_ctx.specific[i].queued
    /\ lua_ctx.ctx /= NullCtx
    /\ lua_step(lua_flush([pool |-> [pool EXCEPT
                                       !.conns[lua_ctx.ctx].err = TRUE],
                           lua |-> lua_ctx], lua_ctx.ctx, TRUE, 1))
    /\ UNCHANGED nlua

\* sp_ud->timeout of a command fires
LuaTimeout ==
    /\ \E i \in 1..MaxLuaCmds :
          /\ lua_ctx.specific[i].timer
          /\ lua_step(lua_redis_timeout([pool |-> pool, lua |-> lua_ctx], i))
    /\ UNCHANGED nlua

\* the session of the task is destroyed
LuaSessionEnd ==
    /\ lua_ctx.s /\ lua_ctx.session
    /\ lua_step(session_destroy([pool |-> pool, lua |-> lua_ctx], 1))
    /\ UNCHANGED nlua

LuaInit ==
    /\ lua_ctx = NoLuaCtx
    /\ nlua = 0

(* ------------------------ statistics (libstat) ------------------------ *)
\* classify and learn calls
MaxStatOps == 2
\* tokens of a message
MaxTokens == 3

RSPAMD_CLASSIFY_OP == 0
RSPAMD_LEARN_OP == 1
RSPAMD_UNLEARN_OP == 2

\* task->cfg->classifiers and clcf->statfiles, in the order of the
\* configuration: c1 has a spam and a ham statfile, c2 a spam statfile only
Classifiers == <<"c1", "c2">>
clcf_statfiles(cl) == IF cl = "c1" THEN <<"S1", "H1">> ELSE <<"S2">>
Statfiles == {"S1", "H1", "S2"}
\* stcf->is_spam
is_spam(stf) == stf \in {"S1", "S2"}

\* rspamd_learn_t, the answer of a learn cache
RSPAMD_LEARN_OK == "OK"
RSPAMD_LEARN_UNLEARN == "UNLEARN"
RSPAMD_LEARN_INGORE == "IGNORE"

\* a list built with g_list_prepend
Prepended(q) == [i \in 1..Len(q) |-> q[Len(q) + 1 - i]]

\* the calls of one classify or learn on each statfile backend, the
\* processed_tokens of each classifier runtime, the arguments of the call (hit
\* is what the backend returns for a token, caches what the learn caches
\* answer), the value returned and the code of the error set
NoStat ==
    [runtime |-> {},
     process_token |-> [s \in Statfiles |-> 0],
     learn_token |-> [s \in Statfiles |-> 0],
     inc_learns |-> [s \in Statfiles |-> 0],
     dec_learns |-> [s \in Statfiles |-> 0],
     finalize_learn |-> [s \in Statfiles |-> 0],
     processed_tokens |-> [c \in {"c1", "c2"} |-> 0],
     op |-> "none", spam |-> FALSE, unlearn |-> FALSE, ntokens |-> 0,
     hit |-> FALSE, caches |-> <<>>, ret |-> "none", err |-> 0]

\* the walk of g_tree_foreach over t tokens with preprocess_init_stat_token
\* (learn FALSE) or rspamd_stat_learn_token (learn TRUE) as its callback: rts is
\* cbdata->classifier_runtimes, n is g_tree_nnodes of the tokens, c and j are
\* the positions of cur and curst, hit is what the backend returns for a token
RECURSIVE stat_foreach_token(_, _, _, _, _, _, _, _)
stat_foreach_token(st, learn, rts, n, hit, t, c, j) ==
    IF t = 0 THEN st
    ELSE IF c > Len(rts)
    THEN stat_foreach_token(st, learn, rts, n, hit, t - 1, 1, 1)
    ELSE LET cl == rts[c].cl
             clcf == stat_cfg[cl]
         IN  IF j = 1 /\ clcf.min_tokens > 0 /\ n < clcf.min_tokens
             THEN stat_foreach_token(st, learn, rts, n, hit, t, c + 1, 1)
             ELSE IF j > Len(rts[c].st_runtime)
             THEN stat_foreach_token(st, learn, rts, n, hit, t, c + 1, 1)
             ELSE LET s == rts[c].st_runtime[j]
                      st1 == IF learn
                             THEN [st EXCEPT
                                     !.learn_token[s] = @ + 1,
                                     !.processed_tokens[cl] =
                                         IF hit THEN @ + 1 ELSE @]
                             ELSE [st EXCEPT !.process_token[s] = @ + 1]
                  IN  IF hit /\ clcf.max_tokens > 0
                         /\ st1.processed_tokens[cl] > clcf.max_tokens
                      THEN st1
                      ELSE stat_foreach_token(st1, learn, rts, n, hit, t, c,
                                              j + 1)

\* rspamd_stat_preprocess: the classifier runtimes and the calls made
preprocess_every_statfile(st, op, spam, n, hit) ==
    LET keep(stf) == TRUE
        all == [i \in 1..Len(Classifiers) |->
                   [cl |-> Classifiers[i],
                    st_runtime |->
                        Prepended(SelectSeq(clcf_statfiles(Classifiers[i]),
                                            keep))]]
        has_runtime(r) == r.st_runtime /= <<>>
        cl_runtimes == Prepended(SelectSeq(all, has_runtime))
        opened == [st EXCEPT !.runtime = {s \in Statfiles : keep(s)}]
    IN  [cl_runtimes |-> cl_runtimes,
         st |-> IF cl_runtimes /= <<>>
                THEN stat_foreach_token(opened, FALSE, cl_runtimes, n, hit,
                                        n, 1, 1)
                ELSE opened]

rspamd_stat_preprocess(st, op, spam, n, hit) ==
    LET keep(stf) == ~(op = RSPAMD_LEARN_OP /\ spam /= is_spam(stf))
        all == [i \in 1..Len(Classifiers) |->
                   [cl |-> Classifiers[i],
                    st_runtime |->
                        Prepended(SelectSeq(clcf_statfiles(Classifiers[i]),
                                            keep))]]
        has_runtime(r) == r.st_runtime /= <<>>
        cl_runtimes == Prepended(SelectSeq(all, has_runtime))
        opened == [st EXCEPT !.runtime = {s \in Statfiles : keep(s)}]
    IN  [cl_runtimes |-> cl_runtimes,
         st |-> IF cl_runtimes /= <<>>
                THEN stat_foreach_token(opened, FALSE, cl_runtimes, n, hit,
                                        n, 1, 1)
                ELSE opened]

\* rspamd_stat_classify
rspamd_stat_classify(n, hit) ==
    LET st0 == [NoStat EXCEPT !.op = "classify", !.ntokens = n, !.hit = hit]
        pre == rspamd_stat_preprocess(st0, RSPAMD_CLASSIFY_OP, FALSE, n, hit)
    IN  IF pre.cl_runtimes = <<>> THEN [pre.st EXCEPT !.ret = "error"]
        ELSE [pre.st EXCEPT !.ret = "ok"]

\* the loop of rspamd_stat_learn over the classifier runtimes from cur on;
\* learn_ok[cl] is what learn_spam_func of the classifier returns. The callback
\* of g_tree_foreach is given cur and starts at g_list_first of it, the head
\* of the whole list cl_runtimes
RECURSIVE learn_classifiers(_, _, _, _, _, _, _, _)
learn_classifiers(st, cl_runtimes, cur, spam, unlearn, n, hit, learn_ok) ==
    IF cur = <<>> THEN st
    ELSE LET cl_run == Head(cur)
             mine(s) == \E i \in 1..Len(cl_run.st_runtime) :
                           cl_run.st_runtime[i] = s
             dec(s) == unlearn /\ spam /= is_spam(s)
             st1 == stat_foreach_token([st EXCEPT !.ret = "ok"], TRUE,
                                       cl_runtimes, n, hit, n, 1, 1)
             st2 == [st1 EXCEPT
                       !.dec_learns = [s \in Statfiles |->
                           IF mine(s) /\ dec(s) THEN @[s] + 1 ELSE @[s]],
                       !.inc_learns = [s \in Statfiles |->
                           IF mine(s) /\ ~dec(s) THEN @[s] + 1 ELSE @[s]],
                       !.finalize_learn = [s \in Statfiles |->
                           IF mine(s) THEN @[s] + 1 ELSE @[s]]]
         IN  IF learn_ok[cl_run.cl]
             THEN learn_classifiers(st2, cl_runtimes, Tail(cur), spam, unlearn,
                                    n, hit, learn_ok)
             ELSE [st EXCEPT !.ret = "error"]

\* rspamd_stat_learn; caches holds the answers of st_ctx->caches[i].process
learn_ignoring_caches(spam, n, hit, caches, learn_ok) ==
    LET unlearn == \E i \in 1..Len(caches) : caches[i] = RSPAMD_LEARN_UNLEARN
        st0 == [NoStat EXCEPT !.op = "learn", !.spam = spam, !.ntokens = n,
                              !.hit = hit, !.unlearn = unlearn,
                              !.caches = caches]
        pre == rspamd_stat_preprocess(st0,
                   IF unlearn THEN RSPAMD_UNLEARN_OP ELSE RSPAMD_LEARN_OP,
                   spam, n, hit)
    IN  IF pre.cl_runtimes = <<>> THEN [pre.st EXCEPT !.ret = "error"]
        ELSE learn_classifiers(pre.st, pre.cl_runtimes, pre.cl_runtimes, spam,
                               unlearn, n, hit, learn_ok)

rspamd_stat_learn(spam, n, hit, caches, learn_ok) ==
    LET ignore(i) == caches[i] = RSPAMD_LEARN_INGORE
        unlearn == \E i \in 1..Len(caches) :
                      /\ caches[i] = RSPAMD_LEARN_UNLEARN
                      /\ \A j \in 1..i : ~ignore(j)
        st0 == [NoStat EXCEPT !.op = "learn", !.spam = spam, !.ntokens = n,
                              !.hit = hit, !.unlearn = unlearn,
                              !.caches = caches]
        pre == rspamd_stat_preprocess(st0,
                   IF unlearn THEN RSPAMD_UNLEARN_OP ELSE RSPAMD_LEARN_OP,
                   spam, n, hit)
    IN  IF \E i \in 1..Len(caches) : ignore(i)
        THEN [st0 EXCEPT !.ret = "error", !.err = 404]
        ELSE IF pre.cl_runtimes = <<>> THEN [pre.st EXCEPT !.ret = "error"]
        ELSE learn_classifiers(pre.st, pre.cl_runtimes, pre.cl_runtimes, spam,
                               unlearn, n, hit, learn_ok)

\* a scan classifies a message
StatClassify ==
    /\ nstat < MaxStatOps
    /\ \E n \in 1..MaxTokens, hit \in BOOLEAN :
          stat' = rspamd_stat_classify(n, hit)
    /\ nstat' = nstat + 1
    /\ UNCHANGED <<stat_cfg, reqvars, luavars, cachevars, upvars>>
    /\ UNCHANGED <<taskvars, cfgvars, fuzzyvars, redisvars, poolvars>>

\* a learn request; the context has two learn caches
StatLearn ==
    /\ nstat < MaxStatOps
    /\ \E spam \in BOOLEAN, n \in 1..MaxTokens, hit \in BOOLEAN,
          caches \in [1..2 -> {RSPAMD_LEARN_OK, RSPAMD_LEARN_UNLEARN,
                               RSPAMD_LEARN_INGORE}],
          learn_ok \in [{"c1", "c2"} -> BOOLEAN] :
          stat' = rspamd_stat_learn(spam, n, hit, caches, learn_ok)
    /\ nstat' = nstat + 1
    /\ UNCHANGED <<stat_cfg, reqvars, luavars, cachevars, upvars>>
    /\ UNCHANGED <<taskvars, cfgvars, fuzzyvars, redisvars, poolvars>>

StatInit ==
    /\ stat = NoStat
    /\ stat_cfg = [c \in {"c1", "c2"} |-> [min_tokens |-> 0, max_tokens |-> 0]]
    /\ nstat = 0

(* ------------------ symbols cache and script symbols ------------------ *)
\* registrations and dependency declarations of a configuration
MaxCacheOps == 4
\* callbacks of script symbols and of their watchers on one task
MaxCallbacks == 4

\* the names scripts register; A and B are also defined in the metric
CacheNames == {"A", "B"}
SYMBOL_TYPE_CALLBACK == "callback"
SYMBOL_TYPE_VIRTUAL == "virtual"

\* items holds the symbols in the order of their ids, from 0; deps and delayed
\* are the dependencies added by id and by name, declared what the scripts
\* asked for; ret is the value the last registration returned; stage is
\* "config" until the configuration is loaded; resolved, started, finished,
\* watchers (the watcher callbacks pending for a symbol) and last (what the
\* script called last did) are those of the task
EmptyCache ==
    [items |-> <<>>, deps |-> {}, delayed |-> {}, declared |-> {},
     ret |-> -1, stage |-> "config", resolved |-> {},
     started |-> {}, finished |-> {}, watchers |-> [n \in CacheNames |-> 0],
     last |-> [inserts |-> FALSE, symbol |-> "A", result |-> "nil"]]

\* rspamd_symbols_cache_find_symbol: the id of the symbol or -1
rspamd_symbols_cache_find_symbol(c, name) ==
    IF \E i \in 1..Len(c.items) : c.items[i].name = name
    THEN (CHOOSE i \in 1..Len(c.items) : c.items[i].name = name) - 1
    ELSE -1

\* rspamd_symbols_cache_add_symbol: a name that is registered is rejected
rspamd_symbols_cache_add_symbol(c, name, priority, has_cb, type, parent) ==
    IF rspamd_symbols_cache_find_symbol(c, name) /= -1
    THEN [c EXCEPT !.ret = -1]
    ELSE [c EXCEPT !.items = Append(@, [name |-> name, priority |-> priority,
                                        cb |-> has_cb, type |-> type,
                                        parent |-> parent]),
                   !.ret = Len(c.items)]

\* rspamd_register_symbol_fromlua with a callback reference
register_symbol_twice(c, name, sym_weight, priority, type, parent, optional) ==
    [c EXCEPT !.items = Append(@, [name |-> name, priority |-> priority,
                                   cb |-> TRUE, type |-> type,
                                   parent |-> parent]),
              !.ret = Len(c.items)]

rspamd_register_symbol_fromlua(c, name, sym_weight, priority, type, parent, optional) ==
    LET prio == IF priority = 0 /\ sym_weight < 0 THEN 1 ELSE priority
        found == rspamd_symbols_cache_find_symbol(c, name)
    IN  IF found /= -1
        THEN IF optional THEN [c EXCEPT !.ret = found] ELSE [c EXCEPT !.ret = -1]
        ELSE rspamd_symbols_cache_add_symbol(c, name, prio, TRUE, type, parent)

\* lua_config_register_dependency: the first argument src is a number (the id
\* of the dependent symbol) or a string (its name)
lua_config_register_dependency(c, src, name) ==
    IF src.number
    THEN LET asked == [c EXCEPT !.declared =
                          IF src.id >= 0 /\ src.id < Len(c.items)
                          THEN @ \cup {<<c.items[src.id + 1].name, name>>}
                          ELSE @]
         IN  IF src.id > 0
             THEN [asked EXCEPT !.deps = @ \cup {<<src.id, name>>}]
             ELSE asked
    ELSE [c EXCEPT !.delayed = @ \cup {<<src.from, name>>},
                   !.declared = @ \cup {<<src.from, name>>}]

\* the dependencies between ids once the configuration is loaded: those given
\* by id and the delayed ones, without those whose symbols are missing
resolve_dependencies(c) ==
    LET id(n) == rspamd_symbols_cache_find_symbol(c, n)
    IN  {<<d[1], id(d[2])>> : d \in {e \in c.deps : id(e[2]) /= -1}}
        \cup {<<id(d[1]), id(d[2])>> :
                d \in {e \in c.delayed : id(e[1]) /= -1 /\ id(e[2]) /= -1}}

\* the dependency graph R has a cycle: some symbol reaches itself in at most
\* as many steps as there are names
cyclic(R) ==
    LET compose(S) == {<<a[1], b[2]>> : a \in S, b \in R}
        linked(S) == {<<a[1], b[2]>> :
                        a \in S, b \in {e \in R : \E x \in S : x[2] = e[1]}}
        join(S) == {p \in linked(S) :
                      \E a \in S, b \in R :
                         a[1] = p[1] /\ a[2] = b[1] /\ b[2] = p[2]}
        R2 == R \cup join(R)
        R3 == R2 \cup join(R2)
    IN  \E p \in R3 : p[1] = p[2]

\* the symbols cache after the configuration is loaded: the dependencies are
\* resolved and a configuration whose dependencies form a cycle is refused
rspamd_symbols_cache_init(c) ==
    LET R == resolve_dependencies(c)
    IN  IF cyclic(R)
        THEN [c EXCEPT !.stage = "aborted"]
        ELSE [c EXCEPT !.stage = "loaded", !.resolved = R]

\* what the script of a symbol or of a watcher does when it is called: it may
\* insert a result itself (task:insert_result) and then raises an error,
\* returns nothing, returns true or returns a function to watch for
ScriptRuns ==
    [inserts : {FALSE}, symbol : {"A"},
     result : {"error", "nil", "true", "function"}]
    \cup [inserts : {TRUE}, symbol : CacheNames, result : {"error", "nil"}]

\* the metric result of the task after the callback `name` ran the script
lua_callback_insert_on_error(name, script) ==
    IF script.inserts
    THEN insert_metric_result(script.symbol, 1, "", FALSE)
    ELSE insert_metric_result(name, 1, "", FALSE)

lua_callback_result(name, script) ==
    IF script.inserts
    THEN insert_metric_result(script.symbol, 1, "", FALSE)
    ELSE IF script.result = "true"
         THEN insert_metric_result(name, 1, "", FALSE)
         ELSE [score |-> score, grow_factor |-> grow_factor,
               symbols |-> symbols, sym_groups |-> sym_groups]

\* lua_metric_symbol_callback and lua_watcher_callback: a returned function is
\* pushed as a watcher callback of the symbol, an error leaves none
lua_callback_watchers(c, name, script) ==
    IF script.result = "function"
    THEN [c EXCEPT !.watchers[name] = @ + 1, !.last = script]
    ELSE [c EXCEPT !.last = script]

\* a symbol whose callback has run and has no watcher callback pending is
\* finished
symbol_finished(c, id) ==
    IF c.watchers[c.items[id + 1].name] = 0
    THEN [c EXCEPT !.finished = @ \cup {id}]
    ELSE c

\* a step of the scan that runs a script: the task's result and the cache
callback_step(c, id, script) ==
    LET name == c.items[id + 1].name
        r == lua_callback_result(name, script)
    IN  /\ score' = r.score
        /\ grow_factor' = r.grow_factor
        /\ symbols' = r.symbols
        /\ sym_groups' = r.sym_groups
        /\ nops' = nops + 1
        /\ cache' = symbol_finished(lua_callback_watchers(c, name, script), id)
        /\ UNCHANGED <<mres_action, pre_result, pre_str, ret, ncache>>
        /\ UNCHANGED <<cfgvars, reqvars, luavars, statvars, upvars, fuzzyvars, redisvars, poolvars>>

cache_step(c) ==
    /\ cache' = c
    /\ ncache' = ncache + 1
    /\ UNCHANGED <<taskvars, cfgvars, reqvars, luavars, statvars, upvars, fuzzyvars, redisvars,
                   poolvars>>

\* rspamd_config:register_symbol and its relatives
CacheRegister ==
    /\ cache.stage = "config"
    /\ ncache < MaxCacheOps
    /\ \E name \in CacheNames, sym_weight \in {-1, 1}, priority \in {0, 10},
          optional \in BOOLEAN :
          cache_step(rspamd_register_symbol_fromlua(cache, name, sym_weight,
                        priority, SYMBOL_TYPE_CALLBACK, -1, optional))

\* rspamd_config:register_virtual_symbol
CacheRegisterVirtual ==
    /\ cache.stage = "config"
    /\ ncache < MaxCacheOps
    /\ \E name \in CacheNames, sym_weight \in {-1, 1},
          parent \in -1..(Len(cache.items) - 1) :
          cache_step(rspamd_symbols_cache_add_symbol(cache, name,
                        IF sym_weight > 0 THEN 0 ELSE -1, FALSE,
                        SYMBOL_TYPE_VIRTUAL, parent))

\* rspamd_config:register_dependency with an id a registration returned or
\* with the name of a symbol
CacheRegisterDependency ==
    /\ cache.stage = "config"
    /\ ncache < MaxCacheOps
    /\ \E src \in [number : {TRUE}, id : 0..(Len(cache.items) - 1), from : {""}]
                  \cup [number : {FALSE}, id : {-1}, from : CacheNames],
          name \in CacheNames :
          cache_step(lua_config_register_dependency(cache, src, name))

\* the configuration is loaded
CacheLoad ==
    /\ cache.stage = "config"
    /\ cache' = rspamd_symbols_cache_init(cache)
    /\ UNCHANGED ncache
    /\ UNCHANGED <<taskvars, cfgvars, reqvars, luavars, statvars, upvars, fuzzyvars, redisvars,
                   poolvars>>

\* a symbol the scan has not started whose resolved dependencies are finished
cache_ready(c, id) ==
    /\ id \notin c.started
    /\ \A d \in c.resolved : d[1] = id => d[2] \in c.finished

\* the scan starts the symbol of the highest priority among those that are
\* ready; a symbol with a callback runs its script, a virtual one has none
SymbolStart ==
    /\ cache.stage = "loaded"
    /\ \E id \in 0..(Len(cache.items) - 1) :
          /\ cache_ready(cache, id)
          /\ \A o \in 0..(Len(cache.items) - 1) :
                cache_ready(cache, o) =>
                   cache.items[o + 1].priority <= cache.items[id + 1].priority
          /\ LET c == [cache EXCEPT !.started = @ \cup {id}]
             IN  IF cache.items[id + 1].cb
                 THEN \E script \in ScriptRuns :
                         /\ script.result = "function" => nops < MaxCallbacks
                         /\ callback_step(c, id, script)
                 ELSE /\ cache' = [c EXCEPT !.finished = @ \cup {id}]
                      /\ UNCHANGED ncache
                      /\ UNCHANGED <<taskvars, cfgvars, reqvars, luavars, statvars, upvars,
                                     fuzzyvars, redisvars, poolvars>>

\* the session calls a pending watcher callback of a started symbol
WatcherCallback ==
    /\ cache.stage = "loaded"
    /\ \E id \in cache.started \ cache.finished :
          LET name == cache.items[id + 1].name
          IN  /\ cache.watchers[name] > 0
              /\ \E script \in ScriptRuns :
                    /\ script.result = "function" => nops < MaxCallbacks
                    /\ callback_step([cache EXCEPT !.watchers[name] = @ - 1],
                                     id, script)

CacheInit ==
    /\ cache = EmptyCache
    /\ ncache = 0

(* ------------------------------ upstreams ----------------------------- *)
\* calls on the upstreams
MaxUpOps == 10
\* requests of the backend in flight at a time, each holding its upstream
MaxSessions == 5
\* the limits of the upstreams: errors allowed, the window they are counted in
\* and the time an upstream stays dead
max_errors == 2
error_time == 2
dead_time == 2
\* the clock runs from FirstTime, when no error is in the window, to MaxTime
FirstTime == error_time + 1
MaxTime == 9

\* the members of the list in the order they were added
Upstreams == <<"A", "B">>
UpstreamNames == {"A", "B"}

\* an upstream is alive when its dead_until lies before now
upstream_alive(l, u) == l.up[u].dead_until < l.now

\* rspamd_upstream_fail: the error window is restarted when the first error
\* is older than error_time, else the error is counted; at max_errors the
\* upstream is dead for dead_time and the counter zero
rspamd_upstream_fail(l, u) ==
    LET old == l.up[u]
        counted == IF l.now - old.first_error_ts > error_time
                   THEN [old EXCEPT !.first_error_ts = l.now, !.errors = 1]
                   ELSE [old EXCEPT !.errors = @ + 1]
    IN  IF counted.errors >= max_errors
        THEN [l EXCEPT !.up[u] = [counted EXCEPT !.dead_until = l.now + dead_time,
                                                 !.errors = 0]]
        ELSE [l EXCEPT !.up[u] = counted]

\* rspamd_upstream_ok
upstream_ok_keeps_errors(l, u) == l

rspamd_upstream_ok(l, u) == [l EXCEPT !.up[u].errors = 0]

\* rspamd_upstream_get with RSPAMD_UPSTREAM_ROUND_ROBIN: the cursor of the list
\* over the alive upstreams, NULL when none is alive
upstream_get_any(l) == Upstreams[(l.cursor % Len(Upstreams)) + 1]

rspamd_upstream_get(l) ==
    LET alive == SelectSeq(Upstreams, LAMBDA u : upstream_alive(l, u))
    IN  IF alive = <<>> THEN NULL ELSE alive[(l.cursor % Len(alive)) + 1]

\* a call on the upstreams; what is watched of the calls: op is the last call,
\* fails the times of the fails of an upstream since its last ok, dead_fails
\* whether fail was called on it since it died
up_step(l, kind, u) ==
    /\ ups' = [l EXCEPT !.op = [kind |-> kind, up |-> u]]
    /\ nups' = nups + 1
    /\ UNCHANGED <<taskvars, cfgvars, fuzzyvars, redisvars, poolvars, reqvars, luavars,
                   statvars, cachevars>>

\* a request of the backend takes an upstream of the read servers
UpGet ==
    /\ nups < MaxUpOps
    /\ ups.held["A"] + ups.held["B"] < MaxSessions
    /\ LET u == rspamd_upstream_get(ups)
           l == [ups EXCEPT !.cursor = (@ + 1) % Len(Upstreams)]
       IN  IF u = NULL
           THEN up_step(l, "get", NULL)
           ELSE up_step([l EXCEPT !.held[u] = @ + 1], "get", u)

\* the reply of a request arrived without an error
UpOk ==
    /\ nups < MaxUpOps
    /\ \E u \in UpstreamNames :
          /\ ups.held[u] > 0
          /\ up_step([rspamd_upstream_ok(ups, u) EXCEPT
                         !.held[u] = @ - 1, !.fails[u] = <<>>], "ok", u)

\* a request ended with an error or timed out
UpFail ==
    /\ nups < MaxUpOps
    /\ \E u \in UpstreamNames :
          /\ ups.held[u] > 0
          /\ LET l == rspamd_upstream_fail(ups, u)
             IN  up_step([l EXCEPT
                            !.held[u] = @ - 1,
                            !.fails[u] = Append(@, ups.now),
                            !.dead_fails[u] =
                               IF l.up[u].dead_until > ups.up[u].dead_until
                               THEN FALSE
                               ELSE IF upstream_alive(ups, u) THEN @ ELSE TRUE],
                         "fail", u)

\* time passes
UpTick ==
    /\ ups.now < MaxTime
    /\ ups' = [ups EXCEPT !.now = @ + 1, !.op = [kind |-> "tick", up |-> NULL]]
    /\ UNCHANGED nups
    /\ UNCHANGED <<taskvars, cfgvars, fuzzyvars, redisvars, poolvars, reqvars, luavars,
                   statvars, cachevars>>

UpInit ==
    /\ ups = [up |-> [u \in UpstreamNames |->
                        [errors |-> 0, first_error_ts |-> 0, dead_until |-> 0]],
              cursor |-> 0, now |-> FirstTime,
              held |-> [u \in UpstreamNames |-> 0],
              op |-> [kind |-> "none", up |-> NULL],
              fails |-> [u \in UpstreamNames |-> <<>>],
              dead_fails |-> [u \in UpstreamNames |-> FALSE]]
    /\ nups = 0

(* ----------------------- the libraries at rest ------------------------ *)
LibInit == ReqInit /\ LuaInit /\ StatInit /\ CacheInit /\ UpInit

(* ------------------------------ the task ------------------------------ *)
TaskInit ==
    /\ score = 0
    /\ grow_factor = 0
    /\ symbols = [s \in Symbols |-> NoSym]
    /\ sym_groups = <<>>
    /\ mres_action = METRIC_ACTION_MAX
    /\ pre_result = METRIC_ACTION_MAX
    /\ pre_str = NULL
    /\ ret = METRIC_ACTION_MAX
    /\ nops = 0

\* insert_result_common on the default metric
insert_result_common(symbol, flag, opt, single) ==
    LET r == insert_metric_result(symbol, flag, opt, single)
    IN  /\ score' = r.score
        /\ grow_factor' = r.grow_factor
        /\ symbols' = r.symbols
        /\ sym_groups' = r.sym_groups
        /\ nops' = nops + 1
        /\ UNCHANGED <<mres_action, pre_result, pre_str, ret>>
        /\ UNCHANGED <<cfgvars, libvars, fuzzyvars, redisvars, poolvars>>

\* rspamd_task_insert_result
InsertResult(bound, flags, opts) ==
    /\ nops < bound
    /\ \E symbol \in Symbols, flag \in flags, opt \in opts :
          insert_result_common(symbol, flag, opt, FALSE)

\* rspamd_task_insert_result_single
InsertResultSingle(bound, flags, opts) ==
    /\ nops < bound
    /\ \E symbol \in Symbols, flag \in flags, opt \in opts :
          insert_result_common(symbol, flag, opt, TRUE)

\* rspamd_task_add_result_option called on a stored symbol result
AddResultOption(bound, opts) ==
    /\ nops < bound
    /\ \E symbol \in Symbols, val \in opts :
          /\ symbols[symbol].present
          /\ symbols' = [symbols EXCEPT ![symbol].options =
                            rspamd_task_add_result_option(symbols[symbol], symbol, val)]
    /\ nops' = nops + 1
    /\ UNCHANGED <<score, grow_factor, sym_groups, mres_action, pre_result,
                   pre_str, ret>>
    /\ UNCHANGED <<cfgvars, libvars, fuzzyvars, redisvars, poolvars>>

\* the third argument of set_pre_result, NULL when the script passes two
PreMessages == {NULL, "m1", "m2"}

\* lua_task_set_pre_result on t = [action, str, score, mres_action], the
\* pre-result and the result of the default metric; action is the number
\* passed by the script, or METRIC_ACTION_MAX when the string names no action
set_pre_result_any(t, action, str) ==
    IF action < METRIC_ACTION_MAX /\ action >= METRIC_ACTION_REJECT
    THEN [action |-> action,
          str |-> IF str /= NULL THEN str ELSE "unknown",
          score |-> actions_limits[action],
          mres_action |-> action]
    ELSE t

lua_task_set_pre_result(t, action, str) ==
    IF action < t.action /\ action < METRIC_ACTION_MAX
          /\ action >= METRIC_ACTION_REJECT
    THEN [action |-> action,
          str |-> IF str /= NULL THEN str ELSE "unknown",
          score |-> actions_limits[action],
          mres_action |-> action]
    ELSE t

\* a script calls task:set_pre_result (action, str)
SetPreResultWith(bound, action, str) ==
    /\ nops < bound
    /\ LET t == lua_task_set_pre_result(
                    [action |-> pre_result, str |-> pre_str, score |-> score,
                     mres_action |-> mres_action], action, str)
       IN  /\ score' = t.score
           /\ mres_action' = t.mres_action
           /\ pre_result' = t.action
           /\ pre_str' = t.str
    /\ nops' = nops + 1
    /\ UNCHANGED <<grow_factor, symbols, sym_groups, ret>>
    /\ UNCHANGED <<cfgvars, libvars, fuzzyvars, redisvars, poolvars>>

SetPreResult(bound) ==
    \E action \in (METRIC_ACTION_REJECT - 1) .. METRIC_ACTION_MAX,
       str \in PreMessages :
          SetPreResultWith(bound, action, str)

\* a caller of rspamd_check_action_metric
CheckAction(bound) ==
    /\ nops < bound
    /\ LET r == rspamd_check_action_metric
       IN  /\ ret' = r[1]
           /\ score' = r[2]
    /\ nops' = nops + 1
    /\ UNCHANGED <<grow_factor, symbols, sym_groups, mres_action, pre_result,
                   pre_str>>
    /\ UNCHANGED <<cfgvars, libvars, fuzzyvars, redisvars, poolvars>>

TaskNext(bound, flags, opts) ==
    \/ InsertResult(bound, flags, opts)
    \/ InsertResultSingle(bound, flags, opts)
    \/ AddResultOption(bound, opts)
    \/ SetPreResult(bound)
    \/ CheckAction(bound)

\* thresholds of a usual configuration: reject 15, add-header 10, greylist 5
DefaultLimits ==
    [i \in ActionLevels |->
        CASE i = METRIC_ACTION_REJECT -> 15
          [] i = METRIC_ACTION_ADD_HEADER -> 10
          [] i = METRIC_ACTION_GREYLIST -> 5
          [] OTHER -> NAN]

\* the reject threshold is not defined, less severe ones are
NoRejectLimits ==
    [i \in ActionLevels |->
        CASE i = METRIC_ACTION_ADD_HEADER -> 10
          [] i = METRIC_ACTION_NOACTION -> 0
          [] OTHER -> NAN]

NoSettings == [s \in Symbols |-> NAN]
SettingsU == [s \in Symbols |-> IF s = "U" THEN 3 ELSE NAN]

\* a task whose insertions vary in symbol, flag and single mode
Init ==
    /\ TaskInit
    /\ RedisInit
    /\ PoolInit
    /\ LibInit
    /\ FuzzyInit /\ records = <<>> /\ update_ips = {NULL}
    /\ actions_limits \in {DefaultLimits, NoRejectLimits}
    /\ max_score \in {0, 8}
    /\ metric_grow_factor \in {1, 2}
    /\ settings \in {NoSettings, SettingsU}
    /\ oneparam = {}

Next == TaskNext(MaxOps, Flags, {NULL, "a"})

Spec == Init /\ [][Next]_vars

\* a task whose insertions vary in their option
InitOpt ==
    /\ TaskInit
    /\ RedisInit
    /\ PoolInit
    /\ LibInit
    /\ FuzzyInit /\ records = <<>> /\ update_ips = {NULL}
    /\ actions_limits = DefaultLimits
    /\ max_score = 8
    /\ metric_grow_factor = 1
    /\ settings = NoSettings
    /\ oneparam \in {{}, {"B"}}

NextOpt == TaskNext(MaxOptOps, {1}, Options)

SpecOpt == InitOpt /\ [][NextOpt]_vars

\* a task under every assignment of the action thresholds
ThresholdValues == {NAN, -5, 5, 10}

InitAct ==
    /\ TaskInit
    /\ RedisInit
    /\ PoolInit
    /\ LibInit
    /\ FuzzyInit /\ records = <<>> /\ update_ips = {NULL}
    /\ actions_limits \in [ActionLevels -> ThresholdValues]
    /\ max_score = 0
    /\ metric_grow_factor = 1
    /\ settings = NoSettings
    /\ oneparam = {}

NextAct == TaskNext(MaxActOps, Flags, {NULL})

SpecAct == InitAct /\ [][NextAct]_vars

\* the fuzzy storage worker, with and without a list of update addresses
InitFuzzy ==
    /\ TaskInit
    /\ RedisInit
    /\ PoolInit
    /\ LibInit
    /\ actions_limits = DefaultLimits
    /\ max_score = 0
    /\ metric_grow_factor = 1
    /\ settings = NoSettings
    /\ oneparam = {}
    /\ FuzzyInit
    /\ update_ips \in {{NULL}, {"ip1"}, {}}

NextFuzzy == AcceptFuzzySocket \/ SyncCallback

SpecFuzzy == InitFuzzy /\ [][NextFuzzy]_vars

\* the redis backend of the fuzzy storage: updates, checks and expirations
InitRedis ==
    /\ TaskInit
    /\ RedisInit
    /\ PoolInit
    /\ LibInit
    /\ FuzzyInit /\ records = <<>> /\ update_ips = {NULL}
    /\ actions_limits = DefaultLimits
    /\ max_score = 0
    /\ metric_grow_factor = 1
    /\ settings = NoSettings
    /\ oneparam = {}

NextRedis ==
    \/ RedisQueueUpdate
    \/ RedisUpdate
    \/ RedisCheck
    \/ RedisCheckCallback
    \/ RedisShinglesCallback
    \/ RedisExpire

SpecRedis == InitRedis /\ [][NextRedis]_vars

\* the updates alone, on a server that drops no key
NextUpdates ==
    \/ RedisQueueUpdate
    \/ RedisUpdate

SpecUpdates == InitRedis /\ [][NextUpdates]_vars

\* the pool of redis connections and its callers
InitPool == InitRedis

NextPool ==
    \/ PoolConnect
    \/ PoolRelease
    \/ PoolError
    \/ PoolCommand
    \/ PoolReply
    \/ PoolTimeout
    \/ PoolDisconnect

SpecPool == InitPool /\ [][NextPool]_vars

\* requests on the redis backend; a timer that is pending does fire
NextReq ==
    \/ ReqStart
    \/ ReqReply
    \/ ReqTimeout

SpecReq == InitRedis /\ [][NextReq]_vars /\ WF_vars(ReqTimeout)

\* the scripts and the redis backend on one pool, and the timers and the
\* disconnects of the connections that are idle
NextLua ==
    \/ LuaConnect
    \/ LuaMakeRequest
    \/ LuaAddCmd
    \/ LuaGc
    \/ LuaReply
    \/ LuaDisconnect
    \/ LuaTimeout
    \/ LuaSessionEnd
    \/ (ReqStart /\ nreq < MaxLuaReqs)
    \/ ReqReply
    \/ ReqTimeout
    \/ (PoolTimeout /\ npool < MaxLuaIdle)
    \/ (PoolDisconnect /\ npool < MaxLuaIdle)

SpecLua == InitRedis /\ [][NextLua]_vars

\* classify and learn under every setting of min_tokens and max_tokens
InitStat ==
    /\ TaskInit
    /\ RedisInit
    /\ PoolInit
    /\ ReqInit
    /\ LuaInit
    /\ FuzzyInit /\ records = <<>> /\ update_ips = {NULL}
    /\ actions_limits = DefaultLimits
    /\ max_score = 0
    /\ metric_grow_factor = 1
    /\ settings = NoSettings
    /\ oneparam = {}
    /\ stat = NoStat
    /\ stat_cfg \in [{"c1", "c2"} -> [min_tokens : {0, 2}, max_tokens : {0, 1}]]
    /\ nstat = 0
    /\ CacheInit
    /\ UpInit

NextStat ==
    \/ StatClassify
    \/ StatLearn

SpecStat == InitStat /\ [][NextStat]_vars

\* the symbols cache: a configuration is written, loaded and a task scanned
NextCache ==
    \/ CacheRegister
    \/ CacheRegisterVirtual
    \/ CacheRegisterDependency
    \/ CacheLoad
    \/ SymbolStart
    \/ WatcherCallback

InitCache ==
    /\ TaskInit
    /\ RedisInit
    /\ PoolInit
    /\ LibInit
    /\ FuzzyInit /\ records = <<>> /\ update_ips = {NULL}
    /\ actions_limits = DefaultLimits
    /\ max_score = 0
    /\ metric_grow_factor = 1
    /\ settings = NoSettings
    /\ oneparam = {}

SpecCache == InitCache /\ [][NextCache]_vars

\* the upstreams of the read servers under the requests of the backend
NextUp ==
    \/ UpGet
    \/ UpOk
    \/ UpFail
    \/ UpTick

SpecUp == InitCache /\ [][NextUp]_vars

(* ============================== claims ================================ *)
RECURSIVE SumScores(_)
SumScores(S) ==
    IF S = {} THEN 0
    ELSE LET x == CHOOSE y \in S : TRUE
         IN  symbols[x].score + SumScores(S \ {x})

Min(S) == CHOOSE x \in S : \A y \in S : x <= y

\* the contribution of an insertion after the grow factor, before the group cap
PreClipDiff(symbol, flag, opt, single) ==
    LET w == insert_weight(symbol, flag)
        s == symbols[symbol]
        d == IF s.present
             THEN adjust_diff(s, w, single_of(s, symbol, opt, single))
             ELSE w
    IN  IF d > 0 /\ grow_factor /= 0 THEN d * grow_factor ELSE d

\* C1: as long as no pre-result has been set, the metric score equals the sum
\* of the scores of the stored symbol results.
C1_ScoreIsSum ==
    pre_result = METRIC_ACTION_MAX => score = SumScores(Symbols)

\* C2: for a group with max_score > 0 the score accumulated for the group
\* never exceeds max_score.
C2_GroupCap ==
    max_score > 0 =>
        \A g \in DOMAIN sym_groups : sym_groups[g] <= max_score

\* the group score has been clipped to the cap (no sum of weights gives 8)
C2_Witness ==
    /\ max_score = 8
    /\ "G" \in DOMAIN sym_groups
    /\ sym_groups["G"] = max_score
    /\ symbols["A"].present /\ symbols["B"].present

\* the most severe action whose defined threshold is <= the score
HighestSeverity ==
    LET D == {i \in ActionLevels :
                ~isnan(actions_limits[i]) /\ actions_limits[i] <= score}
    IN  IF D = {} THEN METRIC_ACTION_NOACTION ELSE Min(D)

\* the most severe among the actions whose threshold is the largest of the
\* defined thresholds that are > 0 and <= the score
LargestThreshold ==
    LET D == {i \in ActionLevels :
                /\ ~isnan(actions_limits[i])
                /\ actions_limits[i] > 0
                /\ actions_limits[i] <= score}
        T == {i \in D : \A j \in D : actions_limits[j] <= actions_limits[i]}
    IN  IF D = {} THEN METRIC_ACTION_NOACTION ELSE Min(T)

C4_FirstDefined ==
    [][(CheckAction(MaxActOps) /\ pre_result /= METRIC_ACTION_MAX) =>
          LET D == {i \in pre_result .. (METRIC_ACTION_MAX - 1) :
                        ~isnan(actions_limits[i])}
          IN  IF D = {} THEN score' = 0
              ELSE ret' = Min(D) /\ score' = actions_limits[Min(D)]]_vars

\* C5: once the pre-result is reject it stays reject, and every check of the
\* action returns reject.
C5_RejectOverrides ==
    [][(pre_result = METRIC_ACTION_REJECT) =>
          /\ pre_result' = METRIC_ACTION_REJECT
          /\ CheckAction(MaxOps) => ret' = METRIC_ACTION_REJECT]_vars

\* reject has been returned with an undefined reject threshold and a negative
\* symbol inserted
C5_Witness ==
    /\ pre_result = METRIC_ACTION_REJECT
    /\ ret = METRIC_ACTION_REJECT
    /\ isnan(actions_limits[METRIC_ACTION_REJECT])
    /\ ~isnan(actions_limits[METRIC_ACTION_ADD_HEADER])
    /\ symbols["A"].present /\ symbols["A"].score < 0

\* C6: a positive insertion that would raise the score of a capped group above
\* max_score adds exactly the headroom max_score - group score to the metric
\* score, to the group score and to the symbol's score, and never less than 0.
C6_ClippedToHeadroom ==
    [][\A symbol \in DefinedSymbols, flag \in Flags, opt \in Options,
          single \in BOOLEAN :
          LET d == PreClipDiff(symbol, flag, opt, single)
              gs == group_slot(symbol)
              room == max_score - gs
          IN  (/\ ~isnan(score)
               /\ max_score > 0 /\ d > 0 /\ gs + d > max_score
               /\ insert_result_common(symbol, flag, opt, single))
              => /\ room >= 0
                 /\ score' = score + room
                 /\ sym_groups'["G"] = gs + room
                 /\ symbols'[symbol].score = symbols[symbol].score + room]_vars

\* C7: once a capped group has reached max_score, a positive insertion of one
\* of its symbols leaves the metric score, the group score and the grow factor
\* unchanged, and a symbol inserted for the first time is stored with score 0.
C7_CapReached ==
    [][\A symbol \in DefinedSymbols, flag \in Flags, opt \in Options,
          single \in BOOLEAN :
          (/\ max_score > 0
           /\ group_slot(symbol) >= max_score
           /\ insert_weight(symbol, flag) > 0
           /\ insert_result_common(symbol, flag, opt, single))
          => /\ score' = score
             /\ sym_groups' = sym_groups
             /\ grow_factor' = grow_factor
             /\ (~symbols[symbol].present => symbols'[symbol].score = 0)]_vars

\* a symbol of the group is stored with score 0 (its weight is not 0), the
\* group is at its cap and the grow factor is not the metric's
C7_Witness ==
    /\ max_score > 0
    /\ "G" \in DOMAIN sym_groups
    /\ sym_groups["G"] = max_score
    /\ symbols["B"].present /\ symbols["B"].score = 0
    /\ grow_factor /= metric_grow_factor

\* C8: the nshots counter of the result of the one-shot symbol A is <= 1.
C8_OneShot ==
    symbols["A"].nshots <= 1

\* C9: the option list of every symbol result holds no option string twice.
C9_NoDuplicateOption ==
    \A sym \in Symbols :
        \A i, j \in 1..Len(symbols[sym].options) :
            i /= j => symbols[sym].options[i] /= symbols[sym].options[j]

\* a symbol result holds several options after three or more operations
C9_Witness ==
    \E sym \in Symbols :
        /\ Len(symbols[sym].options) >= 2
        /\ symbols[sym].nshots >= 2
        /\ nops >= 3

\* the last datagram was a Write or a Delete from an address outside the
\* configured update_ips
UnauthorizedUpdate(ses) ==
    /\ ses.epoch /= RSPAMD_FUZZY_EPOCH_MAX
    /\ ses.cmd.cmd \in {FUZZY_WRITE, FUZZY_DEL}
    /\ update_ips /= {NULL}
    /\ ses.addr \notin update_ips

\* the reply to an unauthorized update: 403, prob 0, the backend's add and del
\* not called, the records unchanged
Rejected403 ==
    (ndgrams' = ndgrams + 1 /\ UnauthorizedUpdate(session'))
    => /\ reply'.sent
       /\ reply'.value = 403
       /\ reply'.prob = 0
       /\ backend_updates' = backend_updates
       /\ records' = records

\* a Check of the digest of the unauthorized update that was just answered
CheckAfter403 ==
    /\ UnauthorizedUpdate(session)
    /\ reply.value = 403
    /\ ndgrams' = ndgrams + 1
    /\ session'.epoch /= RSPAMD_FUZZY_EPOCH_MAX
    /\ session'.cmd.cmd = FUZZY_CHECK
    /\ session'.cmd.digest = session.cmd.digest

\* C10 (as stated): an unauthorized Write or Delete is answered 403 with prob
\* 0, the backend is not called and the records are unchanged, and a Check of
\* that digest that follows is answered value 0, prob 0.
C10_Unauthorized ==
    [][/\ Rejected403
       /\ CheckAfter403 => (reply'.value = 0 /\ reply'.prob = 0)]_vars

\* C10 (amended): ... and a Check of that digest that follows is answered as
\* it would have been before the datagram: value 0, prob 0 when the digest is
\* not stored, the stored value and flag with prob 1.0 when it is.
C10_UnauthorizedUnchanged ==
    [][/\ Rejected403
       /\ CheckAfter403 =>
            LET d == session.cmd.digest
            IN  IF d \in DOMAIN records
                THEN /\ reply'.value = records[d].value
                     /\ reply'.flag = records[d].flag
                     /\ reply'.prob = RSPAMD_SHINGLE_SIZE
                ELSE reply'.value = 0 /\ reply'.prob = 0]_vars

\* an unauthorized update of a stored digest has been answered 403
C10_Witness ==
    /\ UnauthorizedUpdate(session)
    /\ reply.sent /\ reply.value = 403
    /\ session.cmd.digest \in DOMAIN records
    /\ session.cmd.cmd = FUZZY_DEL

\* the reply of a Check of cmd on the keys db when the server answers every
\* request: HMGET, then MGET and the second HMGET when the code asks for them
check_flow(db, cmd) ==
    LET r1 == rspamd_fuzzy_backend_check_redis(cmd, TRUE, TRUE)
        r2 == rspamd_fuzzy_redis_check_callback(db, r1.session, FALSE, TRUE)
        r3 == IF r2.done THEN r2
              ELSE rspamd_fuzzy_redis_shingles_callback(db, r2.session, FALSE,
                                                        TRUE)
        r4 == IF r3.done THEN r3
              ELSE rspamd_fuzzy_redis_check_callback(db, r3.session, FALSE,
                                                     TRUE)
    IN  r4.rep

\* the update call is given the queue q and its transaction is executed
UpdateOf(q) == redis_queue = q /\ redis_queue' = <<>> /\ redis_update'.res

\* C11: an authorized Write(d, f, v) on a store that does not hold d is
\* answered value 0, prob 1.0, and a Check(d) that follows, before the record
\* expires, is answered value v, flag f, prob 1.0.
C11_WriteThenCheck ==
    [][\A u \in Updates :
          (/\ u.cmd = FUZZY_WRITE
           /\ UpdateOf(<<u>>)
           /\ HashKey(u.digest) \notin DOMAIN redis)
          => /\ update_reply([flag |-> u.flag, tag |-> 0], TRUE,
                             redis_update'.res).value = 0
             /\ update_reply([flag |-> u.flag, tag |-> 0], TRUE,
                             redis_update'.res).prob = RSPAMD_SHINGLE_SIZE
             /\ \A k \in CheckShingles :
                   check_flow(redis', [digest |-> u.digest, shingles |-> k])
                   = [value |-> u.value, flag |-> u.flag,
                      prob |-> RSPAMD_SHINGLE_SIZE]]_vars

\* one Write of d1 has been executed and a Check has been answered with its
\* value and flag and prob 1.0
C11_Witness ==
    /\ redis_update.res
    /\ DOMAIN redis = {HashKey("d1"), CountKey, SrcKey(UpdateSrc)}
    /\ redis[CountKey] = 1 /\ redis[SrcKey(UpdateSrc)] = 1
    /\ redis_reply.sent
    /\ redis_reply.value = redis[HashKey("d1")]["V"]
    /\ redis_reply.flag = redis[HashKey("d1")]["F"]
    /\ redis_reply.prob = RSPAMD_SHINGLE_SIZE

\* the update call is given a queue in which u is the last update of its
\* digest, and the transaction is executed
LastUpdateOf(u) ==
    /\ redis_queue' = <<>>
    /\ redis_update'.res
    /\ \E i \in 1..Len(redis_queue) :
          /\ redis_queue[i] = u
          /\ \A j \in (i + 1)..Len(redis_queue) :
                redis_queue[j].digest /= u.digest

\* C12: after a Write(d) and then a Delete(d), a Check(d) with the same
\* shingles returns prob 0.0: the Delete removes the record of the digest and
\* every shingle key the Write created.
C12_DeleteRemoves ==
    [][\A u \in Updates :
          (u.cmd = FUZZY_DEL /\ LastUpdateOf(u))
          => /\ HashKey(u.digest) \notin DOMAIN redis'
             /\ u.shingles /= NoShingles
                => \A i \in 0..(RSPAMD_SHINGLE_SIZE - 1) :
                      ShingleKey(i, shingle_hash(u.shingles, i))
                      \notin DOMAIN redis'
             /\ check_flow(redis', [digest |-> u.digest,
                                    shingles |-> u.shingles]).prob = 0]_vars

\* a Write and a Delete of d1 have been executed in one transaction, nothing
\* of d1 is left, and a Check of d1 with its shingles waits for the reply of
\* MGET
C12_Witness ==
    /\ DOMAIN redis = {CountKey, SrcKey(UpdateSrc)}
    /\ redis[CountKey] = 0 /\ redis[SrcKey(UpdateSrc)] = 1
    /\ redis_session.pc = "mget"
    /\ redis_session.cmd = [digest |-> "d1", shingles |-> text_shingles("d1")]

\* the updates of a digest in a queue, in the order of the queue
updates_of(q, d) == LET of_digest(u) == u.digest = d IN SelectSeq(q, of_digest)

\* the sum of the values of the updates of a queue
RECURSIVE sum_values(_)
sum_values(q) == IF q = <<>> THEN 0 ELSE Head(q).value + sum_values(Tail(q))

\* C13: two Writes of the same digest, with value and flag v1, f1 and then
\* v2, f2, leave the stored value v1 + v2 and the flag f2, whether they are in
\* the same batch or in different ones: every executed batch adds the values
\* of its Writes of a digest to the stored value (0 when there is none) and
\* stores the flag of the last of them.
C13_WritesAccumulate ==
    [][(redis_queue /= <<>> /\ redis_queue' = <<>> /\ redis_update'.res)
       => \A d \in Digests :
             LET w == updates_of(redis_queue, d)
                 old == IF HashKey(d) \in DOMAIN redis
                        THEN redis[HashKey(d)]["V"] ELSE 0
             IN  (w /= <<>> /\ \A i \in 1..Len(w) : w[i].cmd = FUZZY_WRITE)
                 => /\ HashKey(d) \in DOMAIN redis'
                    /\ redis'[HashKey(d)]["V"] = old + sum_values(w)
                    /\ redis'[HashKey(d)]["F"] = w[Len(w)].flag]_vars

\* two Writes of d1 in two transactions, with values 3 and 4 and flags 1 and
\* then 7, have left value 7 and flag 7
C13_Witness ==
    /\ HashKey("d1") \in DOMAIN redis
    /\ redis[HashKey("d1")] = [F |-> 7, V |-> 7]
    /\ redis[CountKey] = 2 /\ redis[SrcKey(UpdateSrc)] = 2

\* the shingles of the Check in progress as the reply of MGET resolves them
resolved_shingles ==
    shingles_of(redis_mget(redis, redis_session.cmd.shingles))

\* the number of shingles that resolve to the digest d
references(d) ==
    Cardinality({i \in 1..RSPAMD_SHINGLE_SIZE :
                    /\ resolved_shingles[i].found = 1
                    /\ resolved_shingles[i].digest = d})

\* the number of shingles that resolve to the most frequent digest
max_count ==
    CHOOSE n \in 0..RSPAMD_SHINGLE_SIZE :
        /\ \A d \in Digests : references(d) <= n
        /\ n = 0 \/ \E d \in Digests : references(d) = n

\* C14: a shingle Check of a digest that is not stored reports a probable
\* match if and only if at least 17 of the 32 shingles resolve and the most
\* frequent digest is referenced by more than 16 of them, wherever that
\* digest stands in the sorted list.
C14_ProbableMatchIff ==
    redis_session.pc = "mget"
    => LET r == rspamd_fuzzy_redis_shingles_callback(redis, redis_session,
                                                     FALSE, TRUE)
           resolved == Cardinality({i \in 1..RSPAMD_SHINGLE_SIZE :
                                       resolved_shingles[i].found = 1})
       IN  (~r.done) <=> (/\ resolved >= RSPAMD_SHINGLE_SIZE \div 2 + 1
                          /\ max_count > RSPAMD_SHINGLE_SIZE \div 2)

\* C15: the prob reported for a probable match is max_count / 32, and 1.0
\* when all 32 shingles resolve to the same digest.
C15_ProbIsShare ==
    [][(/\ redis_session.pc = "hmget"
        /\ redis_session.shingles_checked
        /\ redis_reply'.sent
        /\ redis_reply'.prob > 0)
       => redis_reply'.prob = max_count]_vars

\* a datagram has been received and its command handed to
\* rspamd_fuzzy_process_command
Processed == ndgrams' = ndgrams + 1 /\ session' /= NoSession

\* C16: a datagram whose size is neither that of the legacy command, nor that
\* of the plain command, nor that of the command with shingles matching the
\* shingle count it declares, is dropped: no reply, no call of the backend, no
\* change of the statistics. A datagram that is processed has one of these
\* sizes.
C16_BadSizeDropped ==
    [][Processed
       => \/ session'.cmd.size \in {"legacy", "cmd"}
          \/ /\ session'.cmd.size = "shingle_cmd"
             /\ session'.cmd.shingles_count > 0]_vars

\* C17: hashes_checked[epoch] grows by one with every processed Check and
\* hashes_found[epoch] by one with every Check whose reply has prob > 0.5;
\* hashes_found[e] <= hashes_checked[e] in every reachable state; Write and
\* Delete leave both counters unchanged.
C17_CheckCounters ==
    /\ [](\A e \in Epochs : hashes_found[e] <= hashes_checked[e])
    /\ [][Processed
          => IF session'.cmd.cmd = FUZZY_CHECK
             THEN /\ hashes_checked' =
                        [hashes_checked EXCEPT ![session'.epoch] = @ + 1]
                  /\ hashes_found' =
                        IF reply'.prob > RSPAMD_SHINGLE_SIZE \div 2
                        THEN [hashes_found EXCEPT ![session'.epoch] = @ + 1]
                        ELSE hashes_found
             ELSE UNCHANGED <<hashes_checked, hashes_found>>]_vars

\* two Checks of one epoch have been processed, one of them found its digest
C17_Witness ==
    /\ hashes_checked["EPOCH9"] = 2
    /\ hashes_found["EPOCH9"] = 1
    /\ session.cmd.cmd = FUZZY_CHECK
    /\ reply.sent

\* the connections of a queue
Elems(q) == {q[i] : i \in 1..Len(q)}

\* the connection c is in no queue of the pool p and has been freed
Closed(p, c) ==
    /\ ~p.conns[c].live
    /\ \A k \in PoolKeys : c \notin Elems(p.active[k]) \cup Elems(p.inactive[k])

\* the connection c of the pool p is idle: in the inactive queue of its key
\* only, with its cleanup timer armed
Idle(p, c) ==
    /\ p.conns[c].live /\ ~p.conns[c].active
    /\ p.conns[c].timer /= 0
    /\ c \in Elems(p.inactive[p.conns[c].key])
    /\ c \notin Elems(p.active[p.conns[c].key])

\* C18: rspamd_redis_pool_release_connection returns a connection to the
\* inactive queue, with its cleanup timer armed, only if is_fatal is false,
\* the context has no error and no reply callback is queued on it; otherwise
\* the connection is closed and removed from the pool. A connection with an
\* error or with queued callbacks is never handed out again.
C18_ReleaseKeepsHealthy ==
    /\ [](\A c \in pool_held, is_fatal \in BOOLEAN :
            LET p == rspamd_redis_pool_release_connection(pool, c, is_fatal)
            IN  IF ~is_fatal /\ ~pool.conns[c].err /\ ~pool.conns[c].replies
                THEN Idle(p, c)
                ELSE Closed(p, c))
    /\ [][(pool_ret' /= NullCtx /\ pool_ret' \in pool_held' \ pool_held
           /\ pool.conns[pool_ret'].live)
          => (~pool.conns[pool_ret'].err /\ ~pool.conns[pool_ret'].replies)]_vars

\* the connection handed out last has been given back and is idle, and a
\* second connection has been closed on its release
C18_Witness ==
    /\ pool_ret /= NullCtx
    /\ pool_held = {}
    /\ Idle(pool, pool_ret)
    /\ pool.elts_by_ctx = {c \in ConnIds : pool.conns[c].live} \cup {1, 2}
    /\ Cardinality({c \in ConnIds : pool.conns[c].live}) = 1

\* the healthy idle connections of a key
HealthyIdle(key) == {c \in Elems(pool.inactive[key]) : ~pool.conns[c].err}

\* the connection c of the pool p is checked out: in the active queue of its
\* key only, with no cleanup timer
CheckedOut(p, c, key) ==
    /\ p.conns[c].live /\ p.conns[c].active /\ p.conns[c].key = key
    /\ p.conns[c].timer = 0
    /\ c \in Elems(p.active[key])
    /\ c \notin Elems(p.inactive[key])

\* C19 (as stated): rspamd_redis_pool_connect hands out an idle connection of
\* the key when one exists and has no error, moved from the inactive to the
\* active queue with its timer cancelled; otherwise it opens a new connection;
\* a connection that is checked out is never handed to a second caller.
C19_ConnectReusesIdle ==
    \A key \in PoolKeys, fresh \in ConnIds, ok \in BOOLEAN :
        LET r == rspamd_redis_pool_connect(pool, key, fresh, ok)
        IN  /\ r.ret \notin pool_held
            /\ IF HealthyIdle(key) /= {}
               THEN r.ret \in HealthyIdle(key) /\ CheckedOut(r.pool, r.ret, key)
               ELSE r.ret /= NullCtx
                    => (r.ret = fresh /\ CheckedOut(r.pool, r.ret, key))

\* C19 (amended): ... hands out the connection at the head of the inactive
\* queue of the key when that connection has no error; otherwise (no idle
\* connection, or an error on the one at the head, which is destroyed) it
\* opens a new connection, also when a healthy connection stands behind the
\* head.
C19_ConnectReusesHead ==
    \A key \in PoolKeys, fresh \in ConnIds, ok \in BOOLEAN :
        LET r == rspamd_redis_pool_connect(pool, key, fresh, ok)
            idle == pool.inactive[key]
        IN  /\ r.ret \notin pool_held
            /\ IF idle /= <<>> /\ ~pool.conns[Head(idle)].err
               THEN /\ r.ret = Head(idle)
                    /\ CheckedOut(r.pool, r.ret, key)
                    /\ r.pool.inactive[key] = Tail(idle)
               ELSE /\ r.ret /= NullCtx
                       => (r.ret = fresh /\ CheckedOut(r.pool, r.ret, key))
                    /\ idle /= <<>>
                       => /\ Head(idle) \notin Elems(r.pool.inactive[key])
                          /\ r.ret /= Head(idle) => Closed(r.pool, Head(idle))

\* the connection handed out last stands at the tail of the active queue,
\* behind another one: it was not opened by the last connect (a new connection
\* is pushed to the head) but taken from the inactive queue
C19_Witness ==
    /\ pool_ret /= NullCtx
    /\ Len(pool.active["k1"]) = 2
    /\ pool.active["k1"][2] = pool_ret
    /\ pool_held = Elems(pool.active["k1"])
    /\ CheckedOut(pool, pool_ret, "k1")
    /\ pool.inactive["k1"] = <<>>

\* C20 (as stated): a connection released to the inactive queue gets the
\* shortened timer (timeout / 2) exactly when the length of the inactive queue
\* of its key exceeds max_conns, the full timeout otherwise; when the timer
\* fires the connection is closed and removed from the inactive queue.
C20_TimerByInactive ==
    /\ \A c \in pool_held :
          LET p == rspamd_redis_pool_release_connection(pool, c, FALSE)
              key == pool.conns[c].key
          IN  p.conns[c].live
              => p.conns[c].timer =
                    IF Len(p.inactive[key]) > max_conns
                    THEN default_timeout \div 2 ELSE default_timeout
    /\ \A c \in ConnIds :
          (pool.conns[c].live /\ pool.conns[c].timer /= 0)
          => Closed(REF_RELEASE(pool, c, FALSE), c)

\* C20 (amended): ... exactly when the number of connections of its key that
\* are still checked out (the length of the active queue after the release)
\* exceeds max_conns ...
C20_TimerByActive ==
    /\ \A c \in pool_held :
          LET p == rspamd_redis_pool_release_connection(pool, c, FALSE)
              key == pool.conns[c].key
          IN  p.conns[c].live
              => p.conns[c].timer =
                    IF Len(p.active[key]) > max_conns
                    THEN default_timeout \div 2 ELSE default_timeout
    /\ \A c \in ConnIds :
          (pool.conns[c].live /\ pool.conns[c].timer /= 0)
          => Closed(REF_RELEASE(pool, c, FALSE), c)

\* a connection has been released while more than max_conns connections of
\* its key were checked out, and its timer runs at half the timeout
C20_Witness ==
    \E c \in ConnIds :
        /\ Idle(pool, c)
        /\ pool.conns[c].timer = default_timeout \div 2
        /\ Len(pool.active[pool.conns[c].key]) > max_conns

\* the contribution of an insertion before the grow factor and the group cap:
\* w of a symbol inserted for the first time, diff of a repeated insertion
RawDiff(symbol, flag, opt, single) ==
    LET w == insert_weight(symbol, flag)
        s == symbols[symbol]
    IN  IF s.present
        THEN adjust_diff(s, w, single_of(s, symbol, opt, single))
        ELSE w

\* C29: an insertion whose contribution is not positive (a negative-weight or
\* zero-weight symbol) leaves the grow factor of the metric result exactly as
\* it was before the insertion.
C29_NonPositiveKeepsGrowFactor ==
    [][\A symbol \in Symbols, flag \in Flags, opt \in Options,
          single \in BOOLEAN :
          (/\ RawDiff(symbol, flag, opt, single) <= 0
           /\ insert_result_common(symbol, flag, opt, single))
          => grow_factor' = grow_factor]_vars

\* C30: a positive contribution that the group cap does not drop is added
\* unscaled when it is the first one (the grow factor of the result is 0) and
\* sets the grow factor of the result to metric->grow_factor; every further one
\* is multiplied by the current grow factor of the result before it is added
\* and multiplies that grow factor by metric->grow_factor.
C30_GrowFactorCompounds ==
    [][\A symbol \in Symbols, flag \in Flags, opt \in Options,
          single \in BOOLEAN :
          LET d == RawDiff(symbol, flag, opt, single)
              gf == IF grow_factor = 0 THEN 1 ELSE grow_factor
              added == rspamd_check_group_score(symbol \in DefinedSymbols,
                           max_score, group_slot(symbol), d * gf)
          IN  (/\ d > 0 /\ ~isnan(score) /\ ~isnan(added)
               /\ insert_result_common(symbol, flag, opt, single))
              => /\ score' = score + added
                 /\ grow_factor' = gf * metric_grow_factor]_vars

\* C21: every request on the redis backend (check, count, version, update)
\* calls its completion callback exactly once and releases its pooled
\* connection exactly once, whether the connection or the submission fails,
\* the reply or an error arrives, or the timer expires; on expiry of the timer
\* the callback is given the failure result; a request that waits does end.
C21_CallbackOnce ==
    /\ [](/\ req.cb_calls <= 1 /\ req.releases <= 1
          /\ req.pc = "wait"
                => /\ req.cb_calls = 0 /\ req.releases = 0 /\ req.timer
                   /\ pool.active["k1"] = <<req.ctx>>
          /\ req.pc = "done"
                => /\ req.cb_calls = 1 /\ ~req.timer /\ req.ctx = NullCtx
                   /\ pool.active["k1"] = <<>>)
    /\ [][ReqTimeout => /\ req'.pc = "done" /\ req'.res = "fail"
                        /\ req'.cb_calls = 1 /\ req'.releases = 1]_vars
    /\ [][req.pc = "wait" /\ req'.pc = "done" => req'.releases = 1]_vars
    /\ (req.pc = "wait") ~> (req.pc = "done")

\* a check whose second command was pending has ended with the failure result
\* and its connection is closed, as after the expiry of the timer
C21_Witness ==
    /\ req.pc = "done" /\ req.kind = "CHECK" /\ req.stage = 1
    /\ req.res = "fail" /\ req.cb_calls = 1 /\ req.releases = 1
    /\ \A c \in ConnIds : ~pool.conns[c].live

\* C22: a learn request for which a learn cache answers that the content is
\* already learned in the same class fails with the "already learned, ignore"
\* error (code 404), and learn_token, inc_learns, dec_learns and
\* finalize_learn are called for no statfile.
C22_AlreadyLearnedIgnored ==
    (/\ stat.op = "learn"
     /\ \E i \in 1..Len(stat.caches) : stat.caches[i] = RSPAMD_LEARN_INGORE)
    => /\ stat.ret = "error" /\ stat.err = 404
       /\ \A s \in Statfiles :
             /\ stat.learn_token[s] = 0 /\ stat.inc_learns[s] = 0
             /\ stat.dec_learns[s] = 0 /\ stat.finalize_learn[s] = 0

\* the first cache asked for an unlearn, the second one answered ignore
C22_Witness ==
    /\ stat.op = "learn" /\ stat.err = 404
    /\ stat.caches = <<RSPAMD_LEARN_UNLEARN, RSPAMD_LEARN_INGORE>>

C24_TokenLimits ==
    \A c \in {"c1", "c2"} :
       \A i \in 1..Len(clcf_statfiles(c)) :
          LET s == clcf_statfiles(c)[i]
              clcf == stat_cfg[c]
          IN  /\ (clcf.min_tokens > 0 /\ stat.ntokens < clcf.min_tokens)
                    => /\ stat.process_token[s] = 0
                       /\ stat.learn_token[s] = 0
              /\ (clcf.max_tokens > 0 /\ stat.hit)
                    => /\ stat.process_token[s] <= clcf.max_tokens + 1
                       /\ stat.learn_token[s] <= clcf.max_tokens + 1

\* C26: a registration of a name that is registered returns -1 and leaves the
\* symbols of the cache as they are, unless it is optional: then it returns the
\* id of the registered symbol and adds none; the names of the symbols of the
\* cache are distinct after any sequence of registrations.
C26_DuplicateRejected ==
    /\ \A i, j \in 1..Len(cache.items) :
          cache.items[i].name = cache.items[j].name => i = j
    /\ \A name \in CacheNames, sym_weight \in {-1, 1}, priority \in {0, 10},
          optional \in BOOLEAN :
          LET found == rspamd_symbols_cache_find_symbol(cache, name)
              c == rspamd_register_symbol_fromlua(cache, name, sym_weight,
                      priority, SYMBOL_TYPE_CALLBACK, -1, optional)
          IN  found /= -1
                 => /\ c.items = cache.items
                    /\ c.ret = IF optional THEN found ELSE -1

\* the second call registered the name of the first one as optional and got
\* its id
C26_Witness ==
    /\ ncache = 2 /\ Len(cache.items) = 1
    /\ cache.declared = {} /\ cache.ret = 0

\* C25: a symbol of a task is started only when every symbol it was declared
\* to depend on, by its id or by its name, is finished.
C25_DependenciesFinishedFirst ==
    cache.stage = "loaded"
       => \A id \in cache.started : \A d \in cache.declared :
             LET dep == rspamd_symbols_cache_find_symbol(cache, d[2])
             IN  (d[1] = cache.items[id + 1].name /\ d[1] /= d[2] /\ dep /= -1)
                    => dep \in cache.finished

\* C27: a callback whose script raises an error leaves the score, the symbol
\* results and the group scores of the task as they were and registers no
\* watcher callback, and the symbols that were ready stay ready.
C27_ErrorInsertsNothing ==
    [][(nops' = nops + 1 /\ cache'.last.result = "error")
          => /\ score' = score
             /\ symbols' = symbols
             /\ sym_groups' = sym_groups
             /\ \A n \in CacheNames : cache'.watchers[n] <= cache.watchers[n]
             /\ cache'.stage = "loaded"
             /\ \A o \in 0..(Len(cache.items) - 1) :
                   (cache_ready(cache, o) /\ o \notin cache'.started)
                      => cache_ready(cache', o)]_vars

\* C27 as the callbacks have it: nothing is inserted for the callback whose
\* script raised an error, the results the script inserted itself before the
\* error stay in the task; no watcher callback is registered and the symbols
\* that were ready stay ready.
C27_ErrorInsertsNothingMore ==
    [][(nops' = nops + 1 /\ cache'.last.result = "error")
          => /\ LET r == IF cache'.last.inserts
                         THEN insert_metric_result(cache'.last.symbol, 1, "",
                                                   FALSE)
                         ELSE [score |-> score, grow_factor |-> grow_factor,
                               symbols |-> symbols, sym_groups |-> sym_groups]
                IN  /\ score' = r.score
                    /\ symbols' = r.symbols
                    /\ sym_groups' = r.sym_groups
             /\ \A n \in CacheNames : cache'.watchers[n] <= cache.watchers[n]
             /\ cache'.stage = "loaded"
             /\ \A o \in 0..(Len(cache.items) - 1) :
                   (cache_ready(cache, o) /\ o \notin cache'.started)
                      => cache_ready(cache', o)]_vars

\* the script of the first of two symbols raised an error without a result
\* of its own: the symbol is finished, the task has no result and the second
\* symbol is ready
C27_Witness ==
    /\ cache.stage = "loaded" /\ Len(cache.items) = 2
    /\ cache.started = {0} /\ cache.finished = {0}
    /\ cache.last.result = "error" /\ ~cache.last.inserts
    /\ score = 0 /\ nops = 1
    /\ cache_ready(cache, 1)

C31_CountIsStored ==
    rspamd_fuzzy_backend_count_redis(redis)
       = Cardinality({d \in Digests : HashKey(d) \in DOMAIN redis})

\* the place of the first command of the i-th update in the transaction
RECURSIVE update_offset(_, _)
update_offset(q, i) ==
    IF i = 1 THEN 2
    ELSE update_offset(q, i - 1)
         + Len(rspamd_fuzzy_update_append_command(q[i - 1]))

\* C32: the commands of an update call are one transaction: MULTI is the
\* first and the only MULTI, the commands of each queued update follow in the
\* order of the queue, then one INCR <prefix><src>, and EXEC is the last and
\* the only EXEC; when a command cannot be queued cb_update gets FALSE and the
\* connection is closed with no EXEC queued; the database is then as before
\* the call, and otherwise either as before or as the whole transaction
\* leaves it.
C32_UpdateIsTransaction ==
    [][(nredis' = nredis + 1 /\ redis_queue' = <<>> /\ redis_update'.called)
          => LET q == redis_queue
                 tx == update_transaction(q, UpdateSrc)
                 n == Len(tx)
             IN  /\ \A i \in 1..n : tx[i].op = "MULTI" <=> i = 1
                 /\ \A i \in 1..n : tx[i].op = "EXEC" <=> i = n
                 /\ \A i \in 1..n :
                       (/\ tx[i].op = "INCR"
                        /\ tx[i].key = SrcKey(UpdateSrc))
                          <=> i = n - 1
                 /\ \A i \in 1..Len(q) :
                       LET cmds == rspamd_fuzzy_update_append_command(q[i])
                       IN  SubSeq(tx, update_offset(q, i),
                                  update_offset(q, i) + Len(cmds) - 1) = cmds
                 /\ n = update_offset(q, Len(q) + 1) + 1
                 /\ redis_update'.closed
                       => /\ ~redis_update'.exec
                          /\ ~redis_update'.res
                 /\ ~redis_update'.exec
                       => /\ redis' = redis
                          /\ ~redis_update'.res
                 /\ redis_update'.exec
                       => redis' \in {redis, redis_exec(redis, tx)}
                 /\ redis_update'.res => redis' = redis_exec(redis, tx)]_vars

\* a batch of two updates whose second command could not be queued: the
\* connection is closed and nothing of the batch is stored
C32_Witness ==
    /\ redis_update.called /\ redis_update.closed /\ ~redis_update.exec
    /\ redis = EmptyDb /\ redis_queue = <<>> /\ nredis = 3

\* the reply of HMGET for the key of the session holds the value and the flag
both_found(db, ses) ==
    LET elements == redis_hmget(db, HashKey(ses.key))
    IN  elements[1].type = "string" /\ elements[2].type = "string"

\* C39: a check sends HMGET for the digest of the command first; MGET for the
\* shingles is sent only after that reply, when it did not hold both the value
\* and the flag and the command has shingles, and once per check, so that a
\* check sends three commands at most; a reply to the first HMGET with both
\* fields is answered with the stored value and flag and the probability 1
\* and no MGET.
C39_DirectBeforeShingles ==
    /\ [](redis_session.lookups <= 3)
    /\ [][/\ (redis_session.pc = "idle" /\ redis_session'.pc /= "idle")
                => /\ redis_session'.pc = "hmget"
                   /\ redis_session'.key = redis_session'.cmd.digest
                   /\ ~redis_session'.shingles_checked
                   /\ redis_session'.lookups = 1
          /\ (redis_session.pc /= "mget" /\ redis_session'.pc = "mget")
                => /\ redis_session.pc = "hmget"
                   /\ redis_session.key = redis_session.cmd.digest
                   /\ ~redis_session.shingles_checked
                   /\ redis_session'.shingles_checked
                   /\ redis_session.cmd.shingles /= NoShingles
                   /\ ~both_found(redis, redis_session)
                   /\ redis_session.lookups = 1
          /\ (redis_session.pc = "mget" /\ redis_session'.pc \notin {"idle", "mget"})
                => /\ redis_session'.pc = "hmget"
                   /\ redis_session'.shingles_checked
          /\ (/\ redis_session.pc = "hmget"
              /\ ~redis_session.shingles_checked
              /\ both_found(redis, redis_session)
              /\ redis_session' /= redis_session)
                => /\ redis_session'.pc = "idle"
                   /\ redis_reply'.sent
                   /\ \/ redis_reply' = [sent |-> TRUE, value |-> 0,
                                         flag |-> 0, prob |-> 0]
                      \/ /\ redis_reply'.prob = RSPAMD_SHINGLE_SIZE
                         /\ redis_reply'.value
                               = redis[HashKey(redis_session.key)]["V"]
                         /\ redis_reply'.flag
                               = redis[HashKey(redis_session.key)]["F"]]_vars

\* the third command of a check is waiting for its reply: HMGET for the digest
\* the shingles resolved to, after HMGET for a digest that is not stored and
\* MGET
C39_Witness ==
    /\ redis_session.pc = "hmget" /\ redis_session.lookups = 3
    /\ redis_session.shingles_checked
    /\ redis_session.key /= redis_session.cmd.digest

\* the times connection c is linked in queue q
links(q, c) == Cardinality({i \in 1..Len(q) : q[i] = c})

\* C34: every live connection is linked once, in a queue of the element of
\* its key: in the active queue and in no inactive queue exactly when its
\* active flag is set, in the inactive queue and in no active queue exactly
\* when the flag is clear; the cleanup timer of an inactive connection is
\* pending and the timer of an active connection is not.
C34_OneQueuePerConnection ==
    \A c \in ConnIds :
        pool.conns[c].live =>
            LET conn == pool.conns[c]
            IN  /\ \A k \in PoolKeys :
                      /\ links(pool.active[k], c)
                            = IF conn.active /\ k = conn.key THEN 1 ELSE 0
                      /\ links(pool.inactive[k], c)
                            = IF ~conn.active /\ k = conn.key THEN 1 ELSE 0
                /\ conn.active <=> conn.timer = 0

C34_Witness ==
    \E c, d \in ConnIds :
        /\ pool.conns[c].live /\ pool.conns[c].active
        /\ pool.conns[d].live /\ ~pool.conns[d].active
        /\ pool.conns[c].key = pool.conns[d].key
        /\ pool.conns[d].timer /= 0
        /\ pool.conns[c].timer = 0
        /\ Head(pool.active[pool.conns[c].key]) /= c

\* C35: the contexts in elts_by_ctx are the contexts of live connections:
\* a connection that was destroyed has left the index.
C35_IndexOnlyLive ==
    pool.elts_by_ctx \subseteq {c \in ConnIds : pool.conns[c].live}

\* C38: a call of set_pre_result replaces the pre-result only by a valid
\* action that is strictly more severe than the current one, and then the
\* result of the default metric takes that action and its score and the
\* message is the one passed ("unknown" without one); every other call
\* leaves the action and the message of the pre-result and the score and
\* the action of the metric result as they were.
C38_PreResultOnlyMoreSevere ==
    [][\A action \in (METRIC_ACTION_REJECT - 1) .. METRIC_ACTION_MAX,
          str \in PreMessages :
          SetPreResultWith(MaxOps, action, str) =>
              IF action \in ActionLevels /\ action < pre_result
              THEN /\ pre_result' = action
                   /\ pre_result' < pre_result
                   /\ pre_str' = (IF str = NULL THEN "unknown" ELSE str)
                   /\ mres_action' = action
                   /\ score' = actions_limits[action]
              ELSE UNCHANGED <<pre_result, pre_str, mres_action, score>>]_vars

\* a pre-result set twice, and a later less severe call that changed nothing
C38_Witness ==
    /\ pre_result = METRIC_ACTION_REWRITE_SUBJECT
    /\ pre_str = "m2"
    /\ mres_action = pre_result
    /\ nops >= 3

\* C40: after a learn that returned OK every statfile that was opened got
\* learn_token once per token at most, one of inc_learns and dec_learns once
\* and finalize_learn once, and the statfiles that were not opened got none
\* of these calls.
C40_LearnOncePerStatfile ==
    (stat.op = "learn" /\ stat.ret = "ok")
    => \A s \in Statfiles :
          IF s \in stat.runtime
          THEN /\ stat.learn_token[s] <= stat.ntokens
               /\ stat.inc_learns[s] + stat.dec_learns[s] = 1
               /\ stat.finalize_learn[s] = 1
          ELSE /\ stat.learn_token[s] = 0
               /\ stat.inc_learns[s] + stat.dec_learns[s] = 0
               /\ stat.finalize_learn[s] = 0

\* C33: the callback of a script is called once at most for a command, and
\* never after lua_redis_fin was called for the command or the context was
\* marked terminated, whatever the order of the replies, the timeouts, the
\* failure of the connection, the end of the session and the collection of
\* the userdata.
C33_CallbackOnce ==
    \A i \in 1..MaxLuaCmds :
        /\ lua_ctx.specific[i].calls <= 1
        /\ ~lua_ctx.specific[i].late
        /\ lua_ctx.specific[i].calls = 1 => lua_ctx.specific[i].cbref

\* one command was answered with data; the event of the other was finished
\* by the end of the session and its reply arrived afterwards
C33_Witness ==
    \E i, j \in 1..MaxLuaCmds :
        /\ lua_ctx.alive
        /\ lua_ctx.specific[i].calls = 1
        /\ lua_ctx.specific[i].result = "data"
        /\ lua_ctx.specific[j].cbref /\ lua_ctx.specific[j].fin_calls = 1
        /\ lua_ctx.specific[j].calls = 0 /\ ~lua_ctx.specific[j].queued
        /\ lua_ctx.specific[j].finished

\* C36: no assertion of the pool fails and no reference is dropped on a freed
\* connection or context: a release finds its context registered and active,
\* the cleanup timer fires on inactive connections only, and a connection
\* taken from the pool is released once at most by the request or the script
\* context that took it.
C36_PoolAssertionsHold ==
    /\ ~pool.assert_failed
    /\ ~lua_ctx.uaf
    /\ lua_ctx.releases <= 1
    /\ req.releases <= 1
    /\ \A c \in ConnIds : pool.conns[c].live => pool.conns[c].refcount >= 1

\* a timeout of a script released the connection as fatal while a second
\* command waited, and a request of the backend has released its connection
C36_Witness ==
    /\ lua_ctx.releases = 1 /\ lua_ctx.ctx = NullCtx
    /\ \E i, j \in 1..MaxLuaCmds :
          /\ lua_ctx.specific[i].result = "timeout"
          /\ lua_ctx.specific[j].result = "io error"
    /\ req.releases = 1

\* C37: lua_redis_dtor on a context that holds its connection closes the
\* connection when a command of the context has no answer, and returns it to
\* the inactive queue of the pool otherwise.
C37_DtorReleaseByAnswers ==
    lua_ctx.dtor.released =>
        (lua_ctx.dtor.closed <=> lua_ctx.dtor.unanswered)

====
